---- MODULE Spec2Model ----
(***************************************************************************)
(* Permissioned ledger core: chain engine (blockchain/core), RoundRobin    *)
(* consensus plug-in and the multi-level permission system (MLS).          *)
(*                                                                         *)
(* Hashes are modelled by an abstract collision-free hash: the digest of a *)
(* record is the tuple of the fields that enter the digest, so two digests *)
(* are equal exactly when the hashed fields are equal.                     *)
(***************************************************************************)
EXTENDS Integers, Sequences, FiniteSets, TLC

(***************************************************************************)
(* Bounds of the model                                                     *)
(***************************************************************************)
MaxHeight == 2        \* blocks committed after genesis
MaxPending == 1       \* length of the pending pool
MaxNonce == 1         \* transaction nonces range over 0..MaxNonce
MaxInitBalance == 2   \* balance of the funded account of a restored state
MaxAudit == 5         \* length of the MLS audit log

(***************************************************************************)
(* Program constants                                                       *)
(***************************************************************************)
NumLevels == 3        \* permission_levels handed to the constructor (2..10)
MaxBlockSize == 2     \* config['max_block_size'] of the consensus plug-in
DefaultPower == 10    \* ValidatorState power default

Addr == {"a1", "a2", "a3"}
NoAddr == "none"
Creator == "a1"
GenesisValidators == <<"a1", "a2">>

Tags == {"can_transfer", "can_update_validators",
         "can_grant_permissions", "can_revoke_permissions"}
NoTag == "none"
AllTags == <<"can_transfer", "can_update_validators",
             "can_grant_permissions", "can_revoke_permissions">>

EmptyMap == [x \in {} |-> 0]   \* an empty dict
ZeroHash == <<>>      \* "0" * 64
NoHash == <<>>        \* Transaction._hash = None

(***************************************************************************)
(* Transactions (core/transaction.py)                                      *)
(*   from_address / to_address / amount : inputs[0], outputs[0]            *)
(*   action, target, permission, new_level, security_level : data map      *)
(*     (target stands for data.validator_address / data.target_address)    *)
(*   absent address = NoAddr, absent tag = NoTag, absent level = 0         *)
(*   signature = <<>> when unsigned, else <<key owner, digest signed>>     *)
(*   public_key = the address the attached key derives to, or NoAddr       *)
(*   cached = Transaction._hash (NoHash until hash() is first called)      *)
(***************************************************************************)
Transaction(ty, s, f, t, amt, act, tgt, perm, lvl, sec, n, ts) ==
    [tx_type |-> ty, sender |-> s, from_address |-> f, to_address |-> t,
     amount |-> amt, action |-> act, target |-> tgt, permission |-> perm,
     new_level |-> lvl, security_level |-> sec, nonce |-> n, timestamp |-> ts,
     signature |-> <<>>, public_key |-> NoAddr, cached |-> NoHash]

\* the canonical digest of the current field values (signature and public
\* key are not part of it)
Digest(tx) ==
    <<tx.tx_type, tx.sender, tx.from_address, tx.to_address, tx.amount,
      tx.action, tx.target, tx.permission, tx.new_level, tx.security_level,
      tx.nonce, tx.timestamp>>

\* Transaction.hash(): the cached value when there is one
TxHash(tx) == IF tx.cached # NoHash THEN tx.cached ELSE Digest(tx)

\* crypto/signatures.py over the abstract hash
sign_message(message, key_owner) == <<key_owner, message>>
verify_signature(message, signature, public_key) ==
    /\ signature # <<>>
    /\ public_key # NoAddr
    /\ signature[1] = public_key
    /\ signature[2] = message

\* Transaction.sign(private_key): hash() fills the cache, the signature
\* and the derived public key are attached
Sign(tx, key_owner) ==
    [tx EXCEPT !.signature = sign_message(TxHash(tx), key_owner),
               !.public_key = key_owner,
               !.cached = TxHash(tx)]

\* Transaction.verify_signature() with the stored key
TxVerifySignature(tx) ==
    IF tx.public_key = NoAddr THEN FALSE
    ELSE verify_signature(TxHash(tx), tx.signature, tx.public_key)

TransferTransaction(s, r, amt, n, ts) ==
    Transaction("transfer", s, s, r, amt, "none", NoAddr, NoTag, 0, 0, n, ts)
CustomTransaction(s, n, ts) ==
    Transaction("custom", s, NoAddr, NoAddr, 0, "none", NoAddr, NoTag, 0, 0, n, ts)
ValidatorUpdateTransaction(s, v, act, n, ts) ==
    Transaction("validator_update", s, NoAddr, NoAddr, 0, act, v, NoTag, 0, 0, n, ts)
PermissionTransaction(s, tgt, perm, act, lvl, n, ts) ==
    Transaction(IF act = "set_level" THEN "permission_grant"
                ELSE IF act = "grant" THEN "permission_grant"
                ELSE "permission_revoke",
                s, NoAddr, NoAddr, 0, act, tgt, perm, lvl, 0, n, ts)

(***************************************************************************)
(* Blocks (core/block.py)                                                  *)
(***************************************************************************)
Sha256(x) == <<"sha256", x>>

RECURSIVE MerklePairs(_)
\* one level of Block._calculate_merkle_root: hash adjacent pairs
MerklePairs(hs) ==
    IF hs = <<>> THEN <<>>
    ELSE <<Sha256(<<hs[1], hs[2]>>)>> \o MerklePairs(SubSeq(hs, 3, Len(hs)))

RECURSIVE MerkleLoop(_)
\* the while loop of Block._calculate_merkle_root
MerkleLoop(hs) ==
    IF Len(hs) <= 1 THEN hs[1]
    ELSE MerkleLoop(MerklePairs(IF Len(hs) % 2 # 0
                                THEN Append(hs, hs[Len(hs)]) ELSE hs))

_calculate_merkle_root(transactions) ==
    IF transactions = <<>> THEN Sha256(<<>>)
    ELSE MerkleLoop([i \in 1..Len(transactions) |-> TxHash(transactions[i])])

\* BlockHeader.hash(): digest of the header record
HeaderHash(b) ==
    <<"block", b.version, b.height, b.timestamp, b.previous_hash,
      b.merkle_root, b.validator_address, b.validator_signature,
      b.consensus_data>>

\* Block.__init__: the merkle root is computed at construction
Block(height, previous_hash, transactions, validator_address, consensus_data, timestamp) ==
    [height |-> height, previous_hash |-> previous_hash,
     transactions |-> transactions, validator_address |-> validator_address,
     timestamp |-> timestamp, version |-> 1,
     consensus_data |-> consensus_data,
     merkle_root |-> _calculate_merkle_root(transactions),
     validator_signature |-> <<>>, hash |-> NoHash]

\* Block.finalize(signature)
finalize(b, signature) ==
    LET signed == [b EXCEPT !.validator_signature = signature]
    IN  [signed EXCEPT !.hash = HeaderHash(signed)]

verify_merkle_root(b) == _calculate_merkle_root(b.transactions) = b.merkle_root

GenesisTransaction ==
    [Transaction("genesis", "genesis", NoAddr, NoAddr, 0, "none", NoAddr,
                 NoTag, 0, 0, 0, 0)
     EXCEPT !.signature = <<"genesis", <<"genesis_signature">>>>]

GenesisBlock ==
    finalize(Block(0, ZeroHash, <<GenesisTransaction>>, "genesis",
                   <<"genesis">>, 0),
             <<"genesis", <<"genesis_signature">>>>)

(***************************************************************************)
(* Chain state (core/state.py).  A state st is the record                  *)
(*   [accounts, validators, height, last_block_hash, app_hash]             *)
(* accounts and validators are maps whose domain is the set of addresses   *)
(* materialized so far; permissions is the account's tag list.             *)
(***************************************************************************)
AccountState(balance, nonce, permissions) ==
    [balance |-> balance, nonce |-> nonce, permissions |-> permissions]

ValidatorState(pub_key, power) ==
    [pub_key |-> pub_key, power |-> power, active |-> TRUE,
     total_blocks_proposed |-> 0, total_blocks_signed |-> 0]

InList(x, l) == \E i \in 1..Len(l) : l[i] = x

RECURSIVE RemoveFirst(_, _)
\* list.remove(x)
RemoveFirst(l, x) ==
    IF l = <<>> THEN <<>>
    ELSE IF l[1] = x THEN Tail(l)
    ELSE <<l[1]>> \o RemoveFirst(Tail(l), x)

\* BlockchainState.get_account: the state after the call (the account is
\* created when it does not exist)
get_account(st, address) ==
    IF address \in DOMAIN st.accounts THEN st
    ELSE [st EXCEPT !.accounts = @ @@ (address :> AccountState(0, 0, <<>>))]

add_validator(st, address, validator) ==
    [st EXCEPT !.validators =
        [a \in DOMAIN @ \cup {address} |->
            IF a = address THEN validator ELSE @[a]]]

remove_validator(st, address) ==
    IF address \in DOMAIN st.validators
    THEN [st EXCEPT !.validators[address].active = FALSE]
    ELSE st

\* the active validators, as the map of their objects
get_active_validators(st) ==
    [a \in {v \in DOMAIN st.validators : st.validators[v].active}
        |-> st.validators[a]]

\* transfer with the credit computed from the recipient's balance as read
\* before the debit
transfer_StaleRecipient(st, from_address, to_address, amount) ==
    LET s1 == get_account(get_account(st, from_address), to_address)
    IN  IF s1.accounts[from_address].balance < amount
        THEN [ok |-> FALSE, st |-> s1]
        ELSE [ok |-> TRUE,
              st |-> [s1 EXCEPT
                        !.accounts[from_address].balance = @ - amount,
                        !.accounts[to_address].balance =
                            s1.accounts[to_address].balance + amount,
                        !.accounts[from_address].nonce = @ + 1]]

\* BlockchainState.transfer: [ok, st]; sender and recipient may be the
\* same account object
transfer(st, from_address, to_address, amount) ==
    LET s1 == get_account(get_account(st, from_address), to_address)
    IN  IF s1.accounts[from_address].balance < amount
        THEN [ok |-> FALSE, st |-> s1]
        ELSE [ok |-> TRUE,
              st |-> [s1 EXCEPT !.accounts[from_address].balance = @ - amount,
                                !.accounts[to_address].balance = @ + amount,
                                !.accounts[from_address].nonce = @ + 1]]

grant_permission(st, address, permission) ==
    LET s1 == get_account(st, address)
    IN  IF InList(permission, s1.accounts[address].permissions) THEN s1
        ELSE [s1 EXCEPT !.accounts[address].permissions = Append(@, permission)]

revoke_permission(st, address, permission) ==
    LET s1 == get_account(st, address)
    IN  IF InList(permission, s1.accounts[address].permissions)
        THEN [s1 EXCEPT !.accounts[address].permissions = RemoveFirst(@, permission)]
        ELSE s1

\* BlockchainState.has_permission, evaluated on the state get_account leaves
has_permission(st, address, permission) ==
    InList(permission, get_account(st, address).accounts[address].permissions)

\* BlockchainState.to_dict / calculate_app_hash: the digest covers the
\* whole dictionary, the previously stored app_hash included
to_dict(st) ==
    <<st.height, st.last_block_hash, st.app_hash, st.accounts, st.validators>>

calculate_app_hash(st) == [st EXCEPT !.app_hash = Sha256(to_dict(st))]

(***************************************************************************)
(* Multi-level permission system (permissions/multi_level.py).  A system p *)
(* is the record [user_levels, data_store, audit_log]; user_levels and     *)
(* data_store are maps over the users / data ids seen so far.              *)
(***************************************************************************)
min_level == 1
max_level == NumLevels
default_level == min_level

LogEntry(action, actor, target, old_level, new_level, by_creator, data_id) ==
    [action |-> action, actor |-> actor, target |-> target,
     old_level |-> old_level, new_level |-> new_level,
     by_creator |-> by_creator, data_id |-> data_id]

_log_action(p, entry) == [p EXCEPT !.audit_log = Append(@, entry)]

\* MultiLevelPermissionSystem.__init__
NewPermissionSystem ==
    [user_levels |-> (Creator :> max_level),
     data_store |-> EmptyMap,
     audit_log |-> <<LogEntry("system_init", Creator, Creator, 0, NumLevels,
                              FALSE, "none")>>]

\* get_user_level: the system after the call (an unseen user is registered
\* at the default level and the registration is logged)
get_user_level(p, address) ==
    IF address \in DOMAIN p.user_levels THEN p
    ELSE _log_action([p EXCEPT !.user_levels = @ @@ (address :> default_level)],
                     LogEntry("user_registered", address, address, 0,
                              default_level, FALSE, "none"))

\* the level get_user_level returns
user_level(p, address) == get_user_level(p, address).user_levels[address]

\* promote_user without the bound of the new level by the promoter's level
promote_user_NoLevelBound(p, promoter_address, target_address, new_level) ==
    IF new_level < min_level \/ new_level > max_level
    THEN [ok |-> FALSE, p |-> p]
    ELSE
      LET p1 == get_user_level(p, promoter_address)
          p2 == get_user_level(p1, target_address)
          promoter_level == p1.user_levels[promoter_address]
          target_current_level == p2.user_levels[target_address]
      IN  IF new_level <= target_current_level
          THEN [ok |-> FALSE, p |-> p2]
          ELSE IF promoter_address = Creator
          THEN [ok |-> TRUE,
                p |-> _log_action(
                        [p2 EXCEPT !.user_levels[target_address] = new_level],
                        LogEntry("promote", promoter_address, target_address,
                                 target_current_level, new_level, TRUE, "none"))]
          ELSE IF promoter_level <= target_current_level
          THEN [ok |-> FALSE, p |-> p2]
          ELSE [ok |-> TRUE,
                p |-> _log_action(
                        [p2 EXCEPT !.user_levels[target_address] = new_level],
                        LogEntry("promote", promoter_address, target_address,
                                 target_current_level, new_level, FALSE, "none"))]

\* promote_user: [ok, p]
\* promote_user that writes the target's level before it denies for authority
promote_user_DeniedWrites(p, promoter_address, target_address, new_level) ==
    IF new_level < min_level \/ new_level > max_level
    THEN [ok |-> FALSE, p |-> p]
    ELSE
      LET p1 == get_user_level(p, promoter_address)
          p2 == get_user_level(p1, target_address)
          promoter_level == p1.user_levels[promoter_address]
          target_current_level == p2.user_levels[target_address]
      IN  IF new_level <= target_current_level
          THEN [ok |-> FALSE, p |-> p2]
          ELSE IF promoter_address = Creator
          THEN [ok |-> TRUE,
                p |-> _log_action(
                        [p2 EXCEPT !.user_levels[target_address] = new_level],
                        LogEntry("promote", promoter_address, target_address,
                                 target_current_level, new_level, TRUE, "none"))]
          ELSE IF promoter_level <= target_current_level
          THEN [ok |-> FALSE,
                p |-> [p2 EXCEPT !.user_levels[target_address] = new_level]]
          ELSE IF new_level > promoter_level
          THEN [ok |-> FALSE, p |-> p2]
          ELSE [ok |-> TRUE,
                p |-> _log_action(
                        [p2 EXCEPT !.user_levels[target_address] = new_level],
                        LogEntry("promote", promoter_address, target_address,
                                 target_current_level, new_level, FALSE, "none"))]

promote_user(p, promoter_address, target_address, new_level) ==
    IF new_level < min_level \/ new_level > max_level
    THEN [ok |-> FALSE, p |-> p]
    ELSE
      LET p1 == get_user_level(p, promoter_address)
          p2 == get_user_level(p1, target_address)
          promoter_level == p1.user_levels[promoter_address]
          target_current_level == p2.user_levels[target_address]
      IN  IF new_level <= target_current_level
          THEN [ok |-> FALSE, p |-> p2]
          ELSE IF promoter_address = Creator
          THEN [ok |-> TRUE,
                p |-> _log_action(
                        [p2 EXCEPT !.user_levels[target_address] = new_level],
                        LogEntry("promote", promoter_address, target_address,
                                 target_current_level, new_level, TRUE, "none"))]
          ELSE IF promoter_level <= target_current_level
          THEN [ok |-> FALSE, p |-> p2]
          ELSE IF new_level > promoter_level
          THEN [ok |-> FALSE, p |-> p2]
          ELSE [ok |-> TRUE,
                p |-> _log_action(
                        [p2 EXCEPT !.user_levels[target_address] = new_level],
                        LogEntry("promote", promoter_address, target_address,
                                 target_current_level, new_level, FALSE, "none"))]

\* demote_user without the refusal to demote the creator
demote_user_NoCreatorCheck(p, demoter_address, target_address, new_level) ==
    IF new_level < min_level \/ new_level > max_level
    THEN [ok |-> FALSE, p |-> p]
    ELSE
      LET p1 == get_user_level(p, demoter_address)
          p2 == get_user_level(p1, target_address)
          demoter_level == p1.user_levels[demoter_address]
          target_current_level == p2.user_levels[target_address]
      IN  IF new_level >= target_current_level
          THEN [ok |-> FALSE, p |-> p2]
          ELSE IF demoter_address = Creator
          THEN [ok |-> TRUE,
                p |-> _log_action(
                        [p2 EXCEPT !.user_levels[target_address] = new_level],
                        LogEntry("demote", demoter_address, target_address,
                                 target_current_level, new_level, TRUE, "none"))]
          ELSE IF demoter_level <= target_current_level
          THEN [ok |-> FALSE, p |-> p2]
          ELSE [ok |-> TRUE,
                p |-> _log_action(
                        [p2 EXCEPT !.user_levels[target_address] = new_level],
                        LogEntry("demote", demoter_address, target_address,
                                 target_current_level, new_level, FALSE, "none"))]

\* demote_user: [ok, p]
\* demote_user without the comparison of the demoter's level to the target's
demote_user_NoAuthorityCheck(p, demoter_address, target_address, new_level) ==
    IF target_address = Creator
    THEN [ok |-> FALSE, p |-> p]
    ELSE IF new_level < min_level \/ new_level > max_level
    THEN [ok |-> FALSE, p |-> p]
    ELSE
      LET p1 == get_user_level(p, demoter_address)
          p2 == get_user_level(p1, target_address)
          demoter_level == p1.user_levels[demoter_address]
          target_current_level == p2.user_levels[target_address]
      IN  IF new_level >= target_current_level
          THEN [ok |-> FALSE, p |-> p2]
          ELSE IF demoter_address = Creator
          THEN [ok |-> TRUE,
                p |-> _log_action(
                        [p2 EXCEPT !.user_levels[target_address] = new_level],
                        LogEntry("demote", demoter_address, target_address,
                                 target_current_level, new_level, TRUE, "none"))]
          ELSE IF FALSE
          THEN [ok |-> FALSE, p |-> p2]
          ELSE [ok |-> TRUE,
                p |-> _log_action(
                        [p2 EXCEPT !.user_levels[target_address] = new_level],
                        LogEntry("demote", demoter_address, target_address,
                                 target_current_level, new_level, FALSE, "none"))]

demote_user(p, demoter_address, target_address, new_level) ==
    IF target_address = Creator
    THEN [ok |-> FALSE, p |-> p]
    ELSE IF new_level < min_level \/ new_level > max_level
    THEN [ok |-> FALSE, p |-> p]
    ELSE
      LET p1 == get_user_level(p, demoter_address)
          p2 == get_user_level(p1, target_address)
          demoter_level == p1.user_levels[demoter_address]
          target_current_level == p2.user_levels[target_address]
      IN  IF new_level >= target_current_level
          THEN [ok |-> FALSE, p |-> p2]
          ELSE IF demoter_address = Creator
          THEN [ok |-> TRUE,
                p |-> _log_action(
                        [p2 EXCEPT !.user_levels[target_address] = new_level],
                        LogEntry("demote", demoter_address, target_address,
                                 target_current_level, new_level, TRUE, "none"))]
          ELSE IF demoter_level <= target_current_level
          THEN [ok |-> FALSE, p |-> p2]
          ELSE [ok |-> TRUE,
                p |-> _log_action(
                        [p2 EXCEPT !.user_levels[target_address] = new_level],
                        LogEntry("demote", demoter_address, target_address,
                                 target_current_level, new_level, FALSE, "none"))]

\* DataItem.__init__
DataItem(content, security_level, owner) ==
    [content |-> content, security_level |-> security_level,
     owner |-> owner, accessed_by |-> << >>]

\* store_data: [ok, p]
store_data(p, data_id, content, security_level, owner_address) ==
    IF security_level < min_level \/ security_level > max_level
    THEN [ok |-> FALSE, p |-> p]
    ELSE
      LET p1 == get_user_level(p, owner_address)
      IN  IF p1.user_levels[owner_address] < security_level
          THEN [ok |-> FALSE, p |-> p1]
          ELSE [ok |-> TRUE,
                p |-> _log_action(
                        [p1 EXCEPT !.data_store =
                            [d \in DOMAIN @ \cup {data_id} |->
                                IF d = data_id
                                THEN DataItem(content, security_level,
                                              owner_address)
                                ELSE @[d]]],
                        LogEntry("store_data", owner_address, owner_address,
                                 0, security_level, FALSE, data_id))]

\* access_data with the clearance comparison off by one (> for >=)
access_data_StrictlyAbove(p, user_address, data_id) ==
    IF data_id \notin DOMAIN p.data_store
    THEN [content |-> "none", p |-> p]
    ELSE
      LET data_item == p.data_store[data_id]
          p1 == get_user_level(p, user_address)
      IN  IF ~(p1.user_levels[user_address] > data_item.security_level)
          THEN [content |-> "none",
                p |-> _log_action(p1,
                        LogEntry("access_denied", user_address, user_address,
                                 p1.user_levels[user_address],
                                 data_item.security_level, FALSE, data_id))]
          ELSE [content |-> data_item.content,
                p |-> _log_action(
                        [p1 EXCEPT !.data_store[data_id].accessed_by =
                                        Append(@, user_address)],
                        LogEntry("access_data", user_address, user_address,
                                 0, data_item.security_level, FALSE, data_id))]

\* access_data: [content, p]; content "none" stands for None
access_data(p, user_address, data_id) ==
    IF data_id \notin DOMAIN p.data_store
    THEN [content |-> "none", p |-> p]
    ELSE
      LET data_item == p.data_store[data_id]
          p1 == get_user_level(p, user_address)
      IN  IF ~(p1.user_levels[user_address] >= data_item.security_level)
          THEN [content |-> "none",
                p |-> _log_action(p1,
                        LogEntry("access_denied", user_address, user_address,
                                 p1.user_levels[user_address],
                                 data_item.security_level, FALSE, data_id))]
          ELSE [content |-> data_item.content,
                p |-> _log_action(
                        [p1 EXCEPT !.data_store[data_id].accessed_by =
                                        Append(@, user_address)],
                        LogEntry("access_data", user_address, user_address,
                                 0, data_item.security_level, FALSE, data_id))]

\* MultiLevelPermissionSystem.to_dict: what permissions.json holds.  The
\* data store is written as its size only (data_count)
mls_to_dict(p) ==
    [num_levels |-> NumLevels,
     creator_address |-> Creator,
     user_levels |-> p.user_levels,
     data_count |-> Cardinality(DOMAIN p.data_store),
     audit_log |-> p.audit_log]

\* MultiLevelPermissionSystem.from_dict: a new system for num_levels and
\* creator_address whose user_levels and audit_log are then replaced by
\* the saved ones; nothing is read back into data_store
mls_from_dict(data) ==
    [NewPermissionSystem EXCEPT !.user_levels = data.user_levels,
                                !.audit_log = data.audit_log]

(***************************************************************************)
(* Chain engine (core/blockchain.py).  The pure parts of the handlers work *)
(* on e = [state, permission_system], the two objects a handler mutates    *)
(* while it verifies and executes transactions.                            *)
(***************************************************************************)
VARIABLES
    blocks,                 \* Blockchain.blocks
    pending_transactions,   \* Blockchain.pending_transactions
    state,                  \* Blockchain.state (BlockchainState)
    permission_system,      \* Blockchain.permission_system
    validator_list,         \* RoundRobin.validator_list
    current_index,          \* RoundRobin.current_index
    proposed,               \* the block propose_block returned, until the
                            \* caller hands it to add_block
    last,                   \* the last call and its outcome
    current_round,          \* TendermintBFT.current_round
    merkle_tree,            \* a MerkleTree and its caller's last proof
    consensus,              \* the attributes of the plug-in when it is
                            \* another one than RoundRobin or TendermintBFT
    rbac,                   \* a RoleBasedAccessControl and its AccessControlList
    mining,                 \* the /mine requests of api/server.py in flight
    chain_info              \* a get_chain_info call in flight and what it read

vars == <<blocks, pending_transactions, state, permission_system,
          validator_list, current_index, proposed, last, current_round,
          merkle_tree, consensus, rbac, mining, chain_info>>

permission_map(tx_type) ==
    CASE tx_type = "transfer" -> "can_transfer"
      [] tx_type = "validator_update" -> "can_update_validators"
      [] tx_type = "permission_grant" -> "can_grant_permissions"
      [] tx_type = "permission_revoke" -> "can_revoke_permissions"
      [] OTHER -> NoTag

\* _check_transaction_permissions without the lookup of the mapped tag
_check_transaction_permissions_NoTagCheck(e, tx) ==
    LET required_permission == permission_map(tx.tx_type)
        e1 == IF required_permission # NoTag
              THEN [e EXCEPT !.state = get_account(@, tx.sender)]
              ELSE e
    IN  IF tx.security_level # 0
        THEN LET e2 == [e1 EXCEPT !.permission_system =
                                     get_user_level(@, tx.sender)]
             IN  IF e2.permission_system.user_levels[tx.sender]
                       < tx.security_level
                 THEN [ok |-> FALSE, e |-> e2]
                 ELSE [ok |-> TRUE, e |-> e2]
        ELSE [ok |-> TRUE, e |-> e1]

\* _check_transaction_permissions: [ok, e]
_check_transaction_permissions(e, tx) ==
    LET required_permission == permission_map(tx.tx_type)
        e1 == IF required_permission # NoTag
              THEN [e EXCEPT !.state = get_account(@, tx.sender)]
              ELSE e
    IN  IF required_permission # NoTag
           /\ ~has_permission(e.state, tx.sender, required_permission)
        THEN [ok |-> FALSE, e |-> e1]
        ELSE IF tx.security_level # 0
        THEN LET e2 == [e1 EXCEPT !.permission_system =
                                     get_user_level(@, tx.sender)]
             IN  IF e2.permission_system.user_levels[tx.sender]
                       < tx.security_level
                 THEN [ok |-> FALSE, e |-> e2]
                 ELSE [ok |-> TRUE, e |-> e2]
        ELSE [ok |-> TRUE, e |-> e1]

\* _verify_transaction: [ok, e].  The signature branch is empty in the
\* source (a pass statement), so no signature is checked.
_verify_transaction(e, tx) ==
    LET e1 == [e EXCEPT !.state = get_account(@, tx.sender)]
    IN  IF tx.nonce < e1.state.accounts[tx.sender].nonce
        THEN [ok |-> FALSE, e |-> e1]
        ELSE _check_transaction_permissions(e1, tx)

RECURSIVE VerifyTransactions(_, _)
\* the loop of _verify_block over block.transactions: [ok, e]
VerifyTransactions(e, txs) ==
    IF txs = <<>> THEN [ok |-> TRUE, e |-> e]
    ELSE LET r == _verify_transaction(e, txs[1])
         IN  IF ~r.ok THEN r ELSE VerifyTransactions(r.e, Tail(txs))

\* _verify_block without the height check
_verify_block_NoHeightCheck(e, block) ==
    IF block.previous_hash # blocks[Len(blocks)].hash
    THEN [ok |-> FALSE, e |-> e]
    ELSE IF ~verify_merkle_root(block)
    THEN [ok |-> FALSE, e |-> e]
    ELSE VerifyTransactions(e, block.transactions)

\* _verify_block: [ok, e]
_verify_block(e, block) ==
    IF block.height # (Len(blocks) - 1) + 1
    THEN [ok |-> FALSE, e |-> e]
    ELSE IF block.previous_hash # blocks[Len(blocks)].hash
    THEN [ok |-> FALSE, e |-> e]
    ELSE IF ~verify_merkle_root(block)
    THEN [ok |-> FALSE, e |-> e]
    ELSE VerifyTransactions(e, block.transactions)

\* _execute_transfer: [raised, e]
_execute_transfer(e, tx) ==
    IF tx.from_address # NoAddr /\ tx.to_address # NoAddr
    THEN LET r == transfer(e.state, tx.from_address, tx.to_address, tx.amount)
         IN  [raised |-> ~r.ok, e |-> [e EXCEPT !.state = r.st]]
    ELSE [raised |-> FALSE, e |-> e]

\* _execute_validator_update: [raised, e]; a missing data key raises
_execute_validator_update(e, tx) ==
    IF tx.target = NoAddr \/ tx.action = "none"
    THEN [raised |-> TRUE, e |-> e]
    ELSE IF tx.action = "add"
    THEN [raised |-> FALSE,
          e |-> [e EXCEPT !.state =
                    add_validator(@, tx.target, ValidatorState("", DefaultPower))]]
    ELSE IF tx.action = "remove"
    THEN [raised |-> FALSE,
          e |-> [e EXCEPT !.state = remove_validator(@, tx.target)]]
    ELSE [raised |-> FALSE, e |-> e]

\* _execute_permission_grant: [raised, e]
_execute_permission_grant(e, tx) ==
    IF tx.target = NoAddr
    THEN [raised |-> TRUE, e |-> e]
    ELSE
      LET action == IF tx.action = "none" THEN "grant" ELSE tx.action
          e1 == IF tx.permission # NoTag /\ action = "grant"
                THEN [e EXCEPT !.state =
                         grant_permission(@, tx.target, tx.permission)]
                ELSE e
          e2 == IF tx.new_level # 0
                THEN [e1 EXCEPT !.permission_system =
                         promote_user(@, tx.sender, tx.target, tx.new_level).p]
                ELSE e1
      IN  [raised |-> FALSE, e |-> e2]

\* _execute_permission_revoke: [raised, e]; the set_level branch is empty
_execute_permission_revoke(e, tx) ==
    IF tx.target = NoAddr
    THEN [raised |-> TRUE, e |-> e]
    ELSE
      LET action == IF tx.action = "none" THEN "revoke" ELSE tx.action
      IN  IF tx.permission # NoTag /\ action = "revoke"
          THEN [raised |-> FALSE,
                e |-> [e EXCEPT !.state =
                          revoke_permission(@, tx.target, tx.permission)]]
          ELSE [raised |-> FALSE, e |-> e]

\* the dispatch of _execute_block_transactions for one transaction
ExecuteTransaction(e, tx) ==
    CASE tx.tx_type = "transfer" -> _execute_transfer(e, tx)
      [] tx.tx_type = "validator_update" -> _execute_validator_update(e, tx)
      [] tx.tx_type = "permission_grant" -> _execute_permission_grant(e, tx)
      [] tx.tx_type = "permission_revoke" -> _execute_permission_revoke(e, tx)
      [] OTHER -> [raised |-> FALSE, e |-> e]

RECURSIVE ExecuteLoop(_, _)
\* the for loop inside the try block: stops at the first exception
ExecuteLoop(e, txs) ==
    IF txs = <<>> THEN [raised |-> FALSE, e |-> e]
    ELSE LET r == ExecuteTransaction(e, txs[1])
         IN  IF r.raised THEN r ELSE ExecuteLoop(r.e, Tail(txs))

\* _execute_block_transactions: [ok, e].  The snapshot is a copy of
\* self.state only; on an exception self.state is replaced by it and the
\* permission system keeps what the executed transactions did to it.
_execute_block_transactions(e, block) ==
    LET snapshot == e.state
        r == ExecuteLoop(e, block.transactions)
    IN  IF r.raised
        THEN [ok |-> FALSE, e |-> [r.e EXCEPT !.state = snapshot]]
        ELSE [ok |-> TRUE, e |-> r.e]

(***************************************************************************)
(* RoundRobin consensus (consensus/round_robin.py)                         *)
(***************************************************************************)
\* key=lambda tx: (tx.nonce, tx.timestamp)
NonceTimestampLess(a, b) ==
    \/ a.nonce < b.nonce
    \/ a.nonce = b.nonce /\ a.timestamp < b.timestamp

RECURSIVE InsertByNonceTimestamp(_, _)
\* insert tx behind every element whose key is not greater (stable)
InsertByNonceTimestamp(sorted, tx) ==
    IF sorted = <<>> THEN <<tx>>
    ELSE IF NonceTimestampLess(tx, sorted[1]) THEN <<tx>> \o sorted
    ELSE <<sorted[1]>> \o InsertByNonceTimestamp(Tail(sorted), tx)

RECURSIVE SortedByNonceTimestamp(_)
\* sorted(pending_transactions, key=...): Python's sort is stable
SortedByNonceTimestamp(txs) ==
    IF txs = <<>> THEN <<>>
    ELSE InsertByNonceTimestamp(
            SortedByNonceTimestamp(SubSeq(txs, 1, Len(txs) - 1)),
            txs[Len(txs)])

Prefix(l, n) == SubSeq(l, 1, IF Len(l) < n THEN Len(l) ELSE n)

\* RoundRobin.select_transactions
select_transactions(pending, proposer_address) ==
    Prefix(SortedByNonceTimestamp(pending), MaxBlockSize)

\* RoundRobin.prepare_consensus_data
prepare_consensus_data(proposer_address) ==
    <<"round_robin", current_index, Len(validator_list)>>

RECURSIVE select_proposer(_, _)
\* RoundRobin.select_proposer: [proposer, index]; index is the value the
\* call leaves in current_index.  validators is the map of the validator
\* objects the caller passes.
select_proposer(height, validators) ==
    IF validator_list = <<>>
    THEN [proposer |-> NoAddr, index |-> current_index]
    ELSE LET index == height % Len(validator_list)
             proposer == validator_list[index + 1]
         IN  IF proposer \in DOMAIN validators /\ ~validators[proposer].active
             THEN select_proposer(height + 1, validators)
             ELSE [proposer |-> proposer, index |-> index]

\* RoundRobin.validate_block without the test of the turn
validate_block_AnyListed(block, st) ==
    IF ~InList(block.validator_address, validator_list)
    THEN [ok |-> FALSE, index |-> current_index]
    ELSE LET r == select_proposer(block.height, get_active_validators(st))
         IN  [ok |-> TRUE, index |-> r.index]

\* RoundRobin.validate_block: [ok, index]
validate_block(block, st) ==
    IF ~InList(block.validator_address, validator_list)
    THEN [ok |-> FALSE, index |-> current_index]
    ELSE LET r == select_proposer(block.height, get_active_validators(st))
         IN  [ok |-> block.validator_address = r.proposer, index |-> r.index]

(***************************************************************************)
(* Tendermint-style plug-in (consensus/tendermint.py) and the voting types *)
(* of consensus/base.py.  A round is [height, round_num, votes]; NoRound    *)
(* stands for current_round = None.                                        *)
(***************************************************************************)
block_time == 5
tendermint_max_block_size == 1000

NoRound == [height |-> -1, round_num |-> 0, votes |-> <<>>]

ConsensusVote(block_hash, height, validator_address, signature) ==
    [block_hash |-> block_hash, height |-> height,
     validator_address |-> validator_address, signature |-> signature]

ConsensusRound(height, round_num) ==
    [height |-> height, round_num |-> round_num, votes |-> <<>>]

\* ConsensusRound.has_supermajority
has_supermajority(round, total_validators) ==
    Len(round.votes) >= ((2 * total_validators) \div 3) + 1

\* the addresses in the order sorted(..., key=address) gives them
AddressOrder == <<"a1", "a2", "a3">>

SortedByAddress(validators) ==
    SelectSeq(AddressOrder, LAMBDA a : a \in DOMAIN validators)

RECURSIVE SumPower(_, _)
SumPower(sorted, validators) ==
    IF sorted = <<>> THEN 0
    ELSE validators[sorted[1]].power + SumPower(Tail(sorted), validators)

RECURSIVE CumulativePick(_, _, _, _)
\* the loop of select_proposer: the first validator whose cumulative power
\* exceeds the target
CumulativePick(sorted, validators, cumulative, target) ==
    IF sorted = <<>> THEN NoAddr
    ELSE LET c == cumulative + validators[sorted[1]].power
         IN  IF c > target THEN sorted[1]
             ELSE CumulativePick(Tail(sorted), validators, c, target)

\* TendermintBFT.select_proposer; validators is the map of the active
\* validators, whose powers are positive
tendermint_select_proposer(height, validators) ==
    IF DOMAIN validators = {} THEN NoAddr
    ELSE LET sorted == SortedByAddress(validators)
             total_power == SumPower(sorted, validators)
             target == height % total_power
             picked == CumulativePick(sorted, validators, 0, target)
         IN  IF picked # NoAddr THEN picked ELSE sorted[1]

\* TendermintBFT.select_transactions
tendermint_select_transactions(pending, proposer_address) ==
    Prefix(SortedByNonceTimestamp(pending), tendermint_max_block_size)

\* TendermintBFT.prepare_consensus_data: [round, data]
tendermint_prepare_consensus_data(round, proposer_address, previous_block, now) ==
    LET height == previous_block.height + 1
        r == IF round = NoRound \/ round.height # height
             THEN ConsensusRound(height, 0) ELSE round
    IN  [round |-> r,
         data |-> <<"tendermint", height, r.round_num, proposer_address, now>>]

\* TendermintBFT.validate_block; now is time.time() at the call
tendermint_validate_block(block, st, now) ==
    IF ~(block.validator_address \in DOMAIN st.validators
           /\ st.validators[block.validator_address].active)
    THEN FALSE
    ELSE IF block.validator_address
              # tendermint_select_proposer(block.height,
                                           get_active_validators(st))
    THEN FALSE
    ELSE IF block.timestamp < now - block_time * 2
    THEN FALSE
    ELSE IF Len(block.transactions) > tendermint_max_block_size
    THEN FALSE
    ELSE TRUE

\* TendermintBFT.add_vote: [ok, round]
add_vote(round, st, block_hash, height, validator_address, signature) ==
    IF round = NoRound \/ round.height # height
    THEN [ok |-> FALSE, round |-> round]
    ELSE LET r == [round EXCEPT !.votes =
                     Append(@, ConsensusVote(block_hash, height,
                                             validator_address, signature))]
             validators == get_active_validators(st)
         IN  [ok |-> has_supermajority(r, Cardinality(DOMAIN validators)),
              round |-> r]

\* TendermintBFT.on_block_committed
tendermint_on_block_committed(round, block) ==
    IF round # NoRound /\ round.height = block.height THEN NoRound ELSE round

(***************************************************************************)
(* Merkle trees (core/merkle.py).  A node is represented by its hash; the  *)
(* concatenation of two hashes is the pair of them.                        *)
(***************************************************************************)
\* MerkleNode._calculate_hash of a leaf
LeafHash(data) == Sha256(data)

\* MerkleNode._calculate_hash of an internal node
ParentHash(left, right) == Sha256(<<left, right>>)

RECURSIVE TreeLevel(_)
\* one pass of the for loop of _build_tree: the parents of a level, the last
\* node paired with itself when the level is odd
TreeLevel(nodes) ==
    IF nodes = <<>> THEN <<>>
    ELSE IF Len(nodes) = 1 THEN <<ParentHash(nodes[1], nodes[1])>>
    ELSE <<ParentHash(nodes[1], nodes[2])>>
            \o TreeLevel(SubSeq(nodes, 3, Len(nodes)))

RECURSIVE TreeLoop(_)
\* the while loop of _build_tree
TreeLoop(nodes) ==
    IF Len(nodes) > 1 THEN TreeLoop(TreeLevel(nodes)) ELSE nodes[1]

\* MerkleTree._build_tree
_build_tree(data_list) ==
    TreeLoop([i \in 1..Len(data_list) |-> LeafHash(data_list[i])])

\* MerkleTree.__init__: [raised, leaves, root]; an empty list raises
\* ValueError
MerkleTree(data_list) ==
    IF data_list = <<>>
    THEN [raised |-> TRUE, leaves |-> <<>>, root |-> NoHash]
    ELSE [raised |-> FALSE, leaves |-> data_list,
          root |-> _build_tree(data_list)]

get_root(t) == t.root

RECURSIVE ProofLoop(_, _)
\* the while loop of get_proof; proof_index is its current_index, from 0
ProofLoop(nodes, proof_index) ==
    IF Len(nodes) > 1
    THEN LET i == 2 * (proof_index \div 2)
             left == nodes[i + 1]
             right == IF i + 1 < Len(nodes) THEN nodes[i + 2] ELSE nodes[i + 1]
             step == IF proof_index = i THEN <<right, "right">>
                     ELSE <<left, "left">>
         IN  <<step>> \o ProofLoop(TreeLevel(nodes), i \div 2)
    ELSE <<>>

\* MerkleTree.get_proof: [raised, proof]; an index out of range raises
\* IndexError
get_proof(t, index) ==
    IF index < 0 \/ index >= Len(t.leaves)
    THEN [raised |-> TRUE, proof |-> <<>>]
    ELSE [raised |-> FALSE,
          proof |-> ProofLoop([i \in 1..Len(t.leaves) |-> LeafHash(t.leaves[i])],
                              index)]

RECURSIVE ApplyProof(_, _)
\* the for loop of verify_proof
ApplyProof(current_hash, proof) ==
    IF proof = <<>> THEN current_hash
    ELSE LET sibling_hash == proof[1][1]
             position == proof[1][2]
             combined == IF position = "left"
                         THEN <<sibling_hash, current_hash>>
                         ELSE <<current_hash, sibling_hash>>
         IN  ApplyProof(Sha256(combined), Tail(proof))

\* verify_proof that puts every sibling on the right
verify_proof_SiblingRight(data, proof, root_hash) ==
    ApplyProof(LeafHash(data),
               [i \in 1..Len(proof) |-> <<proof[i][1], "right">>]) = root_hash

\* MerkleTree.verify_proof
verify_proof(data, proof, root_hash) ==
    ApplyProof(LeafHash(data), proof) = root_hash

\* the plug-in is RoundRobin or TendermintBFT
NoPlugin == [kind |-> "none"]

\* no RoleBasedAccessControl was built
NoRBAC == [kind |-> "none"]

\* no /mine request is in flight
NoRequests == <<>>

\* no get_chain_info call is in flight
NoInfo == [pc |-> "idle"]

\* no tree was built
NoTree ==
    [raised |-> FALSE, leaves |-> <<>>, root |-> NoHash, index |-> -1,
     proof |-> <<>>, data |-> NoHash]

(***************************************************************************)
(* Construction (Blockchain.__init__)                                      *)
(***************************************************************************)
\* _create_genesis: the state of a fresh chain
GenesisState ==
    calculate_app_hash(
        [accounts |-> EmptyMap,
         validators |-> [i \in {GenesisValidators[j] : j \in 1..Len(GenesisValidators)}
                            |-> ValidatorState(i, DefaultPower)],
         height |-> 0,
         last_block_hash |-> GenesisBlock.hash,
         app_hash |-> ZeroHash])

\* _load_chain: a state.json written for this chain at height 0 in which
\* the creator's account is funded and holds the flat permission tags
RestoredState(balance) ==
    [GenesisState EXCEPT !.accounts = (Creator :> AccountState(balance, 0, AllTags))]

Result(op, ok, raised) == [op |-> op, ok |-> ok, raised |-> raised]

\* everything but the chain state is the same for both constructions
Constructed ==
    /\ blocks = <<GenesisBlock>>
    /\ pending_transactions = <<>>
    /\ permission_system = NewPermissionSystem
    /\ validator_list = <<>>
    /\ current_index = 0
    /\ proposed = <<>>
    /\ last = Result("init", TRUE, FALSE)
    /\ current_round = NoRound
    /\ merkle_tree = NoTree
    /\ rbac = NoRBAC
    /\ mining = NoRequests
    /\ chain_info = NoInfo
    /\ consensus = NoPlugin

\* a fresh chain
Init == Constructed /\ state = GenesisState

\* a chain restored from its data directory
InitRestored == Constructed /\ state = RestoredState(MaxInitBalance)

\* BlockchainState.__init__
BlockchainState ==
    [accounts |-> EmptyMap, validators |-> EmptyMap, height |-> 0,
     last_block_hash |-> ZeroHash, app_hash |-> ZeroHash]

\* Blockchain.__init__ up to the load: c = [blocks, state,
\* permission_system], the attributes _load_chain and _create_genesis
\* assign
NewChain ==
    [blocks |-> <<>>, state |-> BlockchainState,
     permission_system |-> NewPermissionSystem]

\* a file of the data directory: status is "ok", "missing" or "unreadable"
\* (json.load or from_dict raises on it)
PersistedFile(status, content) == [status |-> status, content |-> content]

\* _load_chain: [ok, raised, c].  Each attribute is assigned as soon as
\* its file is read; the except clause returns False and undoes nothing
_load_chain(c, files) ==
    IF files.blocks.status = "missing" \/ files.state.status = "missing"
    THEN [ok |-> FALSE, raised |-> FALSE, c |-> c]
    ELSE IF files.blocks.status = "unreadable"
    THEN [ok |-> FALSE, raised |-> TRUE, c |-> c]
    ELSE
      LET c1 == [c EXCEPT !.blocks = files.blocks.content]
      IN  IF files.state.status = "unreadable"
          THEN [ok |-> FALSE, raised |-> TRUE, c |-> c1]
          ELSE
            LET c2 == [c1 EXCEPT !.state = files.state.content]
            IN  IF files.permissions.status = "missing"
                THEN [ok |-> TRUE, raised |-> FALSE, c |-> c2]
                ELSE IF files.permissions.status = "unreadable"
                THEN [ok |-> FALSE, raised |-> TRUE, c |-> c2]
                ELSE [ok |-> TRUE, raised |-> FALSE,
                      c |-> [c2 EXCEPT !.permission_system =
                               mls_from_dict(files.permissions.content)]]

RECURSIVE AddValidators(_, _)
\* the loop of _create_genesis over the supplied validators
AddValidators(st, validators) ==
    IF validators = <<>> THEN st
    ELSE AddValidators(
           add_validator(st, validators[1],
                         ValidatorState(validators[1], DefaultPower)),
           Tail(validators))

\* _create_genesis: the genesis block is appended to self.blocks and the
\* validators are added to self.state, whatever the two hold
_create_genesis(c, validators) ==
    [c EXCEPT !.blocks = Append(@, GenesisBlock),
              !.state = calculate_app_hash(
                          [AddValidators(@, validators)
                           EXCEPT !.height = 0,
                                  !.last_block_hash = GenesisBlock.hash])]

\* Blockchain.__init__ from the load on: [ok, raised, c]
LoadOrCreateGenesis(files) ==
    LET loaded == _load_chain(NewChain, files)
    IN  IF loaded.ok THEN loaded
        ELSE [loaded EXCEPT !.c = _create_genesis(@, GenesisValidators)]

(***************************************************************************)
(* Engine operations                                                       *)
(***************************************************************************)
Engine == [state |-> state, permission_system |-> permission_system]

\* Blockchain.add_transaction
add_transaction(tx) ==
    LET r == _verify_transaction(Engine, tx)
        duplicate == \E i \in 1..Len(pending_transactions) :
                        TxHash(pending_transactions[i]) = TxHash(tx)
        ok == r.ok /\ ~duplicate
    IN  /\ ok => Len(pending_transactions) < MaxPending
        /\ Len(r.e.permission_system.audit_log) <= MaxAudit
        /\ state' = r.e.state
        /\ permission_system' = r.e.permission_system
        /\ pending_transactions' = IF ok THEN Append(pending_transactions, tx)
                                   ELSE pending_transactions
        /\ last' = Result("add_transaction", ok, FALSE)
        /\ UNCHANGED <<rbac, mining, chain_info,
                       blocks, validator_list, current_index, proposed,
                       current_round, merkle_tree, consensus>>

\* Blockchain.propose_block; key_owner is the address the supplied
\* private key belongs to, timestamp the wall clock at construction
propose_block(validator_address, key_owner, timestamp) ==
    LET active == /\ validator_address \in DOMAIN state.validators
                  /\ state.validators[validator_address].active
        transactions == select_transactions(pending_transactions,
                                            validator_address)
        last_block == blocks[Len(blocks)]
        block == Block((Len(blocks) - 1) + 1, last_block.hash, transactions,
                       validator_address,
                       prepare_consensus_data(validator_address), timestamp)
        signature == sign_message(block.merkle_root, key_owner)
    IN  /\ proposed' = IF active THEN <<finalize(block, signature)>> ELSE <<>>
        /\ last' = Result("propose_block", active, FALSE)
        /\ UNCHANGED <<rbac, mining, chain_info,
                       blocks, pending_transactions, state, permission_system,
                       validator_list, current_index,
                       current_round, merkle_tree, consensus>>

\* Blockchain.add_block
add_block(block) ==
    LET v == _verify_block(Engine, block)
        c == validate_block(block, v.e.state)
        x == _execute_block_transactions(v.e, block)
        executed_hashes == {TxHash(block.transactions[i]) :
                                i \in 1..Len(block.transactions)}
        committed ==
            calculate_app_hash([x.e.state EXCEPT !.height = block.height,
                                                 !.last_block_hash = block.hash])
        counted ==
            IF block.validator_address \in DOMAIN committed.validators
            THEN [committed EXCEPT
                    !.validators[block.validator_address].total_blocks_proposed
                        = @ + 1]
            ELSE committed
        remaining == SelectSeq(pending_transactions,
                               LAMBDA tx : TxHash(tx) \notin executed_hashes)
    IN  IF ~v.ok
        THEN /\ Len(v.e.permission_system.audit_log) <= MaxAudit
             /\ state' = v.e.state
             /\ permission_system' = v.e.permission_system
             /\ last' = Result("add_block", FALSE, FALSE)
             /\ proposed' = <<>>
             /\ UNCHANGED <<rbac, mining, chain_info,
                            blocks, pending_transactions, validator_list,
                            current_index,
                       current_round, merkle_tree, consensus>>
        ELSE IF ~c.ok
        THEN /\ Len(v.e.permission_system.audit_log) <= MaxAudit
             /\ state' = v.e.state
             /\ permission_system' = v.e.permission_system
             /\ current_index' = c.index
             /\ last' = Result("add_block", FALSE, FALSE)
             /\ proposed' = <<>>
             /\ UNCHANGED <<rbac, mining, chain_info,
                            blocks, pending_transactions, validator_list,
                       current_round, merkle_tree, consensus>>
        ELSE IF ~x.ok
        THEN /\ Len(x.e.permission_system.audit_log) <= MaxAudit
             /\ state' = x.e.state
             /\ permission_system' = x.e.permission_system
             /\ current_index' = c.index
             /\ last' = Result("add_block", FALSE, TRUE)
             /\ proposed' = <<>>
             /\ UNCHANGED <<rbac, mining, chain_info,
                            blocks, pending_transactions, validator_list,
                       current_round, merkle_tree, consensus>>
        ELSE /\ Len(x.e.permission_system.audit_log) <= MaxAudit
             /\ blocks' = Append(blocks, block)
             /\ state' = counted
             /\ permission_system' = x.e.permission_system
             /\ pending_transactions' = remaining
             /\ current_index' = (c.index + 1) % Len(validator_list)
             /\ last' = Result("add_block", TRUE, FALSE)
             /\ proposed' = <<>>
             /\ UNCHANGED <<rbac, mining, chain_info,
                            validator_list, current_round, merkle_tree, consensus>>

\* RoundRobin.add_validator, called on the plug-in by the operator, who
\* fills the rotation in the order of the genesis validators before the
\* engine is used
add_validator_to_rotation(validator_address) ==
    /\ Len(validator_list) < Len(GenesisValidators)
    /\ validator_address = GenesisValidators[Len(validator_list) + 1]
    /\ last.op \in {"init", "add_validator"}
    /\ ~InList(validator_address, validator_list)
    /\ validator_list' = Append(validator_list, validator_address)
    /\ last' = Result("add_validator", TRUE, FALSE)
    /\ UNCHANGED <<rbac, mining, chain_info,
                   blocks, pending_transactions, state, permission_system,
                   current_index, proposed,
                       current_round, merkle_tree, consensus>>

(***************************************************************************)
(* The permission system called directly (permissions/multi_level.py):     *)
(* its methods are public and the engine hands the object out              *)
(***************************************************************************)
MLSCall(op, ok, p) ==
    /\ Len(p.audit_log) <= MaxAudit
    /\ permission_system' = p
    /\ last' = Result(op, ok, FALSE)
    /\ UNCHANGED <<rbac, mining, chain_info,
                   blocks, pending_transactions, state, validator_list,
                   current_index, proposed,
                       current_round, merkle_tree, consensus>>

PromoteUser(promoter_address, target_address, new_level) ==
    LET r == promote_user(permission_system, promoter_address, target_address,
                          new_level)
    IN  MLSCall("promote_user", r.ok, r.p)

DemoteUser(demoter_address, target_address, new_level) ==
    LET r == demote_user(permission_system, demoter_address, target_address,
                         new_level)
    IN  MLSCall("demote_user", r.ok, r.p)

GetUserLevel(address) ==
    MLSCall("get_user_level", TRUE, get_user_level(permission_system, address))

StoreData(data_id, content, security_level, owner_address) ==
    LET r == store_data(permission_system, data_id, content, security_level,
                        owner_address)
    IN  MLSCall("store_data", r.ok, r.p)

AccessData(user_address, data_id) ==
    LET r == access_data(permission_system, user_address, data_id)
    IN  MLSCall("access_data", r.content # "none", r.p)

(***************************************************************************)
(* Inputs of the engine operations                                         *)
(***************************************************************************)
Nonces == 0..MaxNonce
Validators == {GenesisValidators[j] : j \in 1..Len(GenesisValidators)}

\* untagged custom transactions of an address the state has not seen,
\* signed by the sender
CustomInputs ==
    {Sign(CustomTransaction("a3", n, 1), "a3") : n \in Nonces}

\* amounts of a transfer: negative, the whole initial balance of the funded
\* account, more than it
Amounts == {-1, MaxInitBalance, MaxInitBalance + 1}

\* transfers of the funded account to an address the state has not seen, a
\* transfer to itself, and a custom transaction of another unseen address
TransferInputs ==
    {Sign(TransferTransaction(Creator, "a2", amt, 0, 1), Creator) :
        amt \in Amounts}
    \cup {Sign(TransferTransaction(Creator, Creator, MaxInitBalance, 0, 1),
               Creator)}
    \cup {Sign(CustomTransaction("a3", 0, 1), "a3")}

\* transactions of the tagged creator: a flat grant and a level change for a2
GrantInputs ==
    {Sign(PermissionTransaction(Creator, "a2", "can_transfer", "grant", 0, 0, 1),
          Creator),
     Sign(PermissionTransaction(Creator, "a2", NoTag, "set_level",
                                NumLevels - 1, 0, 1), Creator)}

\* the transactions a caller puts into its own blocks: the grants and a
\* transfer of more than the creator holds
PermissionBlockInputs ==
    GrantInputs
    \cup {Sign(TransferTransaction(Creator, "a2", MaxInitBalance + 1, 0, 1),
                Creator)}

\* transactions of every gated kind sent by a2, which holds no tag until
\* the grant above is committed
UntaggedInputs ==
    {Sign(TransferTransaction("a2", Creator, 0, 0, 1), "a2"),
     Sign(ValidatorUpdateTransaction("a2", "a3", "add", 0, 1), "a2"),
     Sign(PermissionTransaction("a2", "a3", "can_transfer", "grant", 0, 0, 1),
          "a2"),
     Sign(PermissionTransaction("a2", Creator, "can_transfer", "revoke", 0, 0, 1),
          "a2")}

\* a transaction of a kind outside the permission map, of an address that
\* holds no tag
UngatedInputs == {Sign(CustomTransaction("a3", 0, 1), "a3")}

PermissionInputs == GrantInputs \cup UntaggedInputs \cup UngatedInputs

\* a transfer of the creator signed with its key, the same transfer with
\* outputs[0].amount changed after signing, one never signed, and one signed
\* with the key of another address
SignedTransfer == Sign(TransferTransaction(Creator, "a2", 1, 0, 1), Creator)

SignatureInputs ==
    {SignedTransfer,
     [SignedTransfer EXCEPT !.amount = MaxInitBalance],
     TransferTransaction(Creator, "a2", 1, 0, 2),
     Sign(TransferTransaction(Creator, "a2", 1, 0, 3), "a3")}

TxSeqs(TX, size) ==
    UNION {[1..k -> TX] : k \in 0..size}

\* blocks a caller builds itself: Block(...) followed by finalize(...)
\* with a signature of the named validator
CallerBlock(height, previous_hash, transactions, validator_address) ==
    LET b == Block(height, previous_hash, transactions, validator_address,
                   prepare_consensus_data(validator_address), 1)
    IN  finalize(b, sign_message(b.merkle_root, validator_address))

\* a block whose transaction list was replaced after construction
StaleRootBlock(height, previous_hash, transactions, validator_address) ==
    LET b == [Block(height, previous_hash, <<>>, validator_address,
                    prepare_consensus_data(validator_address), 1)
              EXCEPT !.transactions = transactions]
    IN  finalize(b, sign_message(b.merkle_root, validator_address))

\* the validator whose turn the rotation gives for the next height
NextProposer ==
    IF validator_list = <<>> THEN GenesisValidators[1]
    ELSE validator_list[(Len(blocks) % Len(validator_list)) + 1]

\* blocks for the tip by the validator whose turn it is, empty blocks by
\* any validator (at the height of the tip, one below and one above), and
\* blocks that miss another structural requirement
CallerBlocks(TX, size) ==
    LET tip == blocks[Len(blocks)]
    IN  {CallerBlock(Len(blocks), tip.hash, txs, NextProposer) :
            txs \in TxSeqs(TX, size)}
        \cup {CallerBlock(Len(blocks), tip.hash, <<>>, v) : v \in Validators}
        \cup {CallerBlock(h, tip.hash, <<>>, v) :
                h \in {Len(blocks) - 1, Len(blocks) + 1}, v \in Validators}
        \cup {CallerBlock(Len(blocks), ZeroHash, <<>>, NextProposer)}
        \cup {StaleRootBlock(Len(blocks), tip.hash, <<tx>>, NextProposer) :
                tx \in TX}

\* The rotation is left as constructed or filled completely before the
\* engine is used.
RotationSettled ==
    validator_list = <<>> \/ Len(validator_list) = Len(GenesisValidators)

\* The callers of the engine (the mining helper of the scenario test, the
\* /mine handler) hand a proposed block to add_block before they make
\* another call, so the other operations wait while a proposal is open.
AddTransaction(TX) ==
    /\ RotationSettled
    /\ proposed = <<>>
    /\ \E tx \in TX : add_transaction(tx)

ProposeBlock ==
    /\ RotationSettled
    /\ proposed = <<>>
    /\ \E validator_address \in Addr :
          propose_block(validator_address, validator_address, 1)

\* height bounds the chain the exploration builds
AddProposedBlock(height) ==
    /\ proposed # <<>>
    /\ add_block(proposed[1])
    /\ Len(blocks') <= height + 1

AddCallerBlock(TX, size, height) ==
    /\ RotationSettled
    /\ proposed = <<>>
    /\ \E block \in CallerBlocks(TX, size) : add_block(block)
    /\ Len(blocks') <= height + 1

AddValidatorToRotation ==
    \E validator_address \in Validators :
        add_validator_to_rotation(validator_address)

Next ==
    \/ AddTransaction(CustomInputs)
    \/ ProposeBlock
    \/ AddProposedBlock(MaxHeight)
    \/ AddCallerBlock(CustomInputs, 1, MaxHeight)
    \/ AddValidatorToRotation

Spec == Init /\ [][Next]_vars

\* the engine of a restored chain, fed with transfers
NextTransfer ==
    \/ AddTransaction(TransferInputs)
    \/ ProposeBlock
    \/ AddProposedBlock(MaxHeight - 1)
    \/ AddCallerBlock(TransferInputs, MaxBlockSize, MaxHeight - 1)
    \/ AddValidatorToRotation

SpecTransfer == InitRestored /\ [][NextTransfer]_vars

\* the engine of a restored chain, fed with permission transactions
NextPermission ==
    \/ AddTransaction(PermissionInputs)
    \/ ProposeBlock
    \/ AddProposedBlock(MaxHeight - 1)
    \/ AddCallerBlock(PermissionBlockInputs, MaxBlockSize, MaxHeight - 1)
    \/ AddValidatorToRotation

SpecPermission == InitRestored /\ [][NextPermission]_vars

\* the engine of a restored chain, fed with well and badly signed transfers
NextSignature ==
    \/ AddTransaction(SignatureInputs)
    \/ ProposeBlock
    \/ AddProposedBlock(MaxHeight - 1)
    \/ AddCallerBlock(SignatureInputs, 1, MaxHeight - 1)
    \/ AddValidatorToRotation

SpecSignature == InitRestored /\ [][NextSignature]_vars

\* levels handed to the permission system: the valid ones and one beyond
\* each end of the range
LevelInputs == (min_level - 1)..(max_level + 1)

\* the permission system of a fresh chain, called by any user
NextMLS ==
    \/ \E p, t \in Addr, n \in LevelInputs : PromoteUser(p, t, n)
    \/ \E d, t \in Addr, n \in LevelInputs : DemoteUser(d, t, n)
    \/ \E a \in Addr : GetUserLevel(a)
    \/ \E o \in Addr, l \in LevelInputs : StoreData("d1", "content", l, o)
    \/ \E u \in Addr, d \in {"d1", "d2"} : AccessData(u, d)

SpecMLS == Init /\ [][NextMLS]_vars

(***************************************************************************)
(* Properties of the chain engine                                          *)
(***************************************************************************)
RECURSIVE Flatten(_)
Flatten(ss) == IF ss = <<>> THEN <<>> ELSE ss[1] \o Flatten(Tail(ss))

\* the committed transactions in commit order (block order, then position
\* inside the block), genesis excluded
CommittedTransactions ==
    Flatten([i \in 1..(Len(blocks) - 1) |-> blocks[i + 1].transactions])

\* C1: every block of the block list sits at the index equal to its height
\* and, genesis excluded, names the hash of the block before it
C1_HeightAndLinkage ==
    \A i \in 1..Len(blocks) :
        /\ blocks[i].height = i - 1
        /\ i >= 2 => blocks[i].previous_hash = blocks[i - 1].hash

\* two blocks were committed on top of genesis
C1_Witness == Len(blocks) >= 3 /\ last = Result("add_block", TRUE, FALSE)

\* C6: for every sender the nonces of its committed transactions, in
\* commit order, never decrease
C6_NonceMonotonic ==
    LET c == CommittedTransactions
    IN  \A i, j \in 1..Len(c) :
            (i < j /\ c[i].sender = c[j].sender) => c[i].nonce <= c[j].nonce

\* C2: an add_block call in which a transaction raised leaves the state,
\* the block list and the pending pool as they were before the call
C2_RaiseLeavesEngineAsBefore ==
    [][(last'.op = "add_block" /\ last'.raised)
          => /\ state' = state
             /\ blocks' = blocks
             /\ pending_transactions' = pending_transactions]_vars

\* C7: no account holds a negative balance
C7_BalancesNonNegative ==
    \A a \in DOMAIN state.accounts : state.accounts[a].balance >= 0

RECURSIVE SumBalances(_, _)
SumBalances(accounts, addresses) ==
    IF addresses = {} THEN 0
    ELSE LET a == CHOOSE x \in addresses : TRUE
         IN  accounts[a].balance + SumBalances(accounts, addresses \ {a})

TotalBalance(st) == SumBalances(st.accounts, DOMAIN st.accounts)

C3_RaiseLeavesLevelsAsBefore ==
    [][(last'.op = "add_block" /\ last'.raised)
          => permission_system' = permission_system]_vars

\* the sender of tx holds, in st, the tag the permission map gives its kind
HoldsMappedTag(st, tx) ==
    permission_map(tx.tx_type) # NoTag
        => /\ tx.sender \in DOMAIN st.accounts
           /\ InList(permission_map(tx.tx_type),
                     st.accounts[tx.sender].permissions)

ValidSignature(tx) ==
    /\ tx.public_key = tx.sender
    /\ verify_signature(Digest(tx), tx.signature, tx.public_key)

\* C4: every pending transaction and every committed transaction other
\* than a GENESIS transaction carries a valid signature of its sender
C4_AdmittedCarryValidSignature ==
    /\ \A i \in 1..Len(pending_transactions) :
          ValidSignature(pending_transactions[i])
    /\ \A i \in 1..Len(CommittedTransactions) :
          CommittedTransactions[i].tx_type # "genesis"
              => ValidSignature(CommittedTransactions[i])

\* C9: the creator holds level num_levels
C9_CreatorLevel ==
    /\ Creator \in DOMAIN permission_system.user_levels
    /\ permission_system.user_levels[Creator] = NumLevels

\* the audit log holds an entry of an action
Logged(action) ==
    \E i \in 1..Len(permission_system.audit_log) :
        permission_system.audit_log[i].action = action

\* a user was registered, promoted and demoted, and data was stored
C9_Witness ==
    /\ Logged("user_registered")
    /\ Logged("promote")
    /\ Logged("demote")
    /\ Logged("store_data")

\* C10: a promote_user(p, t, n) call of a promoter p other than the creator
\* that returns true is made with p's level above t's level before the call
\* and n at most p's level; it leaves t at most at p's level, p is not t,
\* and no other user's level changes
C10_PromotionAuthority ==
    [][(last'.op = "promote_user" /\ last'.ok)
        => \A p \in Addr \ {Creator}, t \in Addr, n \in LevelInputs :
            LET r == promote_user(permission_system, p, t, n)
            IN  (r.ok /\ permission_system' = r.p)
                    => /\ user_level(permission_system, p)
                            > user_level(permission_system, t)
                       /\ n <= user_level(permission_system, p)
                       /\ permission_system'.user_levels[t]
                            <= user_level(permission_system, p)
                       /\ p # t
                       /\ \A a \in DOMAIN permission_system.user_levels :
                            a # t => permission_system'.user_levels[a]
                                        = permission_system.user_levels[a]]_vars

\* a promotion by a user other than the creator has just succeeded
C10_Witness ==
    LET log == permission_system.audit_log
    IN  /\ last = Result("promote_user", TRUE, FALSE)
        /\ log[Len(log)].action = "promote"
        /\ log[Len(log)].actor # Creator

\* the ids access_data is called with: the stored one and one never stored
DataIds == {"d1", "d2"}

\* C11: in every reachable state access_data(u, id) returns the content of
\* the item stored under id when u's level at the call is at least the
\* item's security level, and None when id is not stored or u's level is
\* below the item's level
C11_ReadRule ==
    \A u \in Addr, id \in DataIds :
        LET r == access_data(permission_system, u, id)
            readable ==
                /\ id \in DOMAIN permission_system.data_store
                /\ user_level(permission_system, u)
                     >= permission_system.data_store[id].security_level
        IN  r.content = IF readable
                        THEN permission_system.data_store[id].content
                        ELSE "none"

\* after a user was promoted, one access to the stored item was denied and
\* the last call was an access that returned the content
C11_Witness ==
    /\ last = Result("access_data", TRUE, FALSE)
    /\ Logged("promote")
    /\ Logged("access_data")
    /\ "d1" \in DOMAIN permission_system.data_store

\* the steps of demote_user that return true
DemotedBy(d, t, n) ==
    LET r == demote_user(permission_system, d, t, n)
    IN  /\ last'.op = "demote_user" /\ last'.ok
        /\ r.ok /\ permission_system' = r.p

\* what every successful demote_user(d, t, n) has in common: the target is
\* not the creator, 1 <= n < t's level before the call, t's level becomes n
\* and no other user's level changes
DemotionFrame(d, t, n) ==
    /\ t # Creator
    /\ min_level <= n
    /\ n < user_level(permission_system, t)
    /\ permission_system'.user_levels[t] = n
    /\ DOMAIN permission_system'.user_levels
          = DOMAIN permission_system.user_levels
    /\ \A a \in DOMAIN permission_system.user_levels :
          a # t => permission_system'.user_levels[a]
                      = permission_system.user_levels[a]

Appended ==
    LET old == permission_system.audit_log
        new == permission_system'.audit_log
    IN  SubSeq(new, Len(old) + 1, Len(new))

\* a step appends an entry with one of the given actions
AppendsOneOf(actions) ==
    \E i \in DOMAIN Appended : Appended[i].action \in actions

\* C13: every call of promote_user, demote_user and access_data appends at
\* least one audit entry naming that decision, success or denial (an access
\* attempt leaves an access_data or access_denied entry, also for a data id
\* that does not exist), and the entries already in the log stay as they are
C13_AuditCompleteness ==
    [][LET old == permission_system.audit_log
           new == permission_system'.audit_log
       IN  /\ Len(new) >= Len(old)
           /\ SubSeq(new, 1, Len(old)) = old
           /\ last'.op = "promote_user" => AppendsOneOf({"promote"})
           /\ last'.op = "demote_user" => AppendsOneOf({"demote"})
           /\ last'.op = "access_data"
                => AppendsOneOf({"access_data", "access_denied"})]_vars

\* the level a user is observed at: its entry, or the default for a user the
\* system has not seen
ObservedLevel(p, a) ==
    IF a \in DOMAIN p.user_levels THEN p.user_levels[a] ELSE 1

SoleValidatorState ==
    calculate_app_hash(
        [accounts |-> EmptyMap,
         validators |-> (Creator :> ValidatorState(Creator, DefaultPower)),
         height |-> 0,
         last_block_hash |-> GenesisBlock.hash,
         app_hash |-> ZeroHash])

\* a fresh chain whose only genesis validator is the creator
InitSoleValidator == Constructed /\ state = SoleValidatorState

\* send_promotion_tx of the scenario test: a set_level transaction of the
\* creator for another address and a level above the default, signed with
\* the creator's key
SetLevelInputs ==
    {Sign(PermissionTransaction(Creator, t, NoTag, "set_level", n, k, 1),
          Creator) :
        t \in Addr \ {Creator}, n \in (min_level + 1)..max_level, k \in Nonces}

\* the scenario test's calls (send_promotion_tx, mine_block by the creator),
\* custom transactions of another address, and the operator adding the
\* creator to the rotation
NextSoleValidator ==
    \/ /\ proposed = <<>>
       /\ \E tx \in SetLevelInputs \cup CustomInputs : add_transaction(tx)
    \/ /\ proposed = <<>>
       /\ propose_block(Creator, Creator, 1)
    \/ AddProposedBlock(MaxHeight)
    \/ add_validator_to_rotation(Creator)

SpecSoleValidator == InitSoleValidator /\ [][NextSoleValidator]_vars

\* C15: on a fresh chain whose only genesis validator is the creator,
\* add_transaction of a set_level transaction signed by the creator (target
\* T, level n with 1 < n <= L) returns true, and add_block of the proposed
\* block that carries it returns true, brings the height to 1 and T's level
\* to n
C15_CreatorSetLevelCommits ==
    [][\A tx \in SetLevelInputs :
        /\ (Len(blocks) = 1 /\ proposed = <<>> /\ add_transaction(tx))
              => last'.ok
        /\ (/\ Len(blocks) = 1 /\ proposed # <<>>
            /\ InList(tx, proposed[1].transactions)
            /\ add_block(proposed[1]))
              => /\ last'.ok
                 /\ Len(blocks') = 2
                 /\ tx.target \in DOMAIN permission_system'.user_levels
                 /\ permission_system'.user_levels[tx.target]
                        = tx.new_level]_vars

(***************************************************************************)
(* The engine with the Tendermint-style plug-in                            *)
(***************************************************************************)
MaxVotes == 3           \* length of a round's vote list

\* Blockchain.propose_block with TendermintBFT; now is time.time()
TendermintProposeBlock(validator_address, key_owner, now) ==
    LET active == /\ validator_address \in DOMAIN state.validators
                  /\ state.validators[validator_address].active
        transactions == tendermint_select_transactions(pending_transactions,
                                                       validator_address)
        last_block == blocks[Len(blocks)]
        c == tendermint_prepare_consensus_data(current_round,
                                               validator_address, last_block,
                                               now)
        block == Block((Len(blocks) - 1) + 1, last_block.hash, transactions,
                       validator_address, c.data, now)
        signature == sign_message(block.merkle_root, key_owner)
    IN  /\ proposed' = IF active THEN <<finalize(block, signature)>> ELSE <<>>
        /\ current_round' = IF active THEN c.round ELSE current_round
        /\ last' = Result("propose_block", active, FALSE)
        /\ UNCHANGED <<rbac, mining, chain_info,
                       blocks, pending_transactions, state, permission_system,
                       validator_list, current_index, merkle_tree, consensus>>

\* TendermintBFT.add_vote called on the plug-in
AddVote(block_hash, height, validator_address) ==
    LET r == add_vote(current_round, state, block_hash, height,
                      validator_address, <<validator_address, block_hash>>)
    IN  /\ Len(r.round.votes) <= MaxVotes
        /\ current_round' = r.round
        /\ last' = Result("add_vote", r.ok, FALSE)
        /\ UNCHANGED <<rbac, mining, chain_info,
                       blocks, pending_transactions, state, permission_system,
                       validator_list, current_index, proposed, merkle_tree, consensus>>

\* Blockchain.add_block with TendermintBFT; now is time.time() at the
\* plug-in's validate_block
TendermintAddBlock(block, now) ==
    LET v == _verify_block(Engine, block)
        c == tendermint_validate_block(block, v.e.state, now)
        x == _execute_block_transactions(v.e, block)
        executed_hashes == {TxHash(block.transactions[i]) :
                                i \in 1..Len(block.transactions)}
        committed ==
            calculate_app_hash([x.e.state EXCEPT !.height = block.height,
                                                 !.last_block_hash = block.hash])
        counted ==
            IF block.validator_address \in DOMAIN committed.validators
            THEN [committed EXCEPT
                    !.validators[block.validator_address].total_blocks_proposed
                        = @ + 1]
            ELSE committed
        remaining == SelectSeq(pending_transactions,
                               LAMBDA tx : TxHash(tx) \notin executed_hashes)
    IN  IF ~v.ok \/ ~c
        THEN /\ state' = v.e.state
             /\ permission_system' = v.e.permission_system
             /\ last' = Result("add_block", FALSE, FALSE)
             /\ proposed' = <<>>
             /\ UNCHANGED <<rbac, mining, chain_info,
                            blocks, pending_transactions, validator_list,
                            current_index, current_round, merkle_tree, consensus>>
        ELSE IF ~x.ok
        THEN /\ state' = x.e.state
             /\ permission_system' = x.e.permission_system
             /\ last' = Result("add_block", FALSE, TRUE)
             /\ proposed' = <<>>
             /\ UNCHANGED <<rbac, mining, chain_info,
                            blocks, pending_transactions, validator_list,
                            current_index, current_round, merkle_tree, consensus>>
        ELSE /\ blocks' = Append(blocks, block)
             /\ state' = counted
             /\ permission_system' = x.e.permission_system
             /\ pending_transactions' = remaining
             /\ current_round' = tendermint_on_block_committed(current_round,
                                                               block)
             /\ last' = Result("add_block", TRUE, FALSE)
             /\ proposed' = <<>>
             /\ UNCHANGED <<rbac, mining, chain_info,
                            validator_list, current_index, merkle_tree, consensus>>

\* voting powers the genesis validators share: 1 and the default
Powers == {1, DefaultPower}

\* _create_genesis with the first n addresses as validators of power p
TendermintGenesisState(n, p) ==
    calculate_app_hash(
        [accounts |-> EmptyMap,
         validators |-> [a \in {AddressOrder[i] : i \in 1..n}
                            |-> ValidatorState(a, p)],
         height |-> 0,
         last_block_hash |-> GenesisBlock.hash,
         app_hash |-> ZeroHash])

InitTendermint ==
    /\ Constructed
    /\ \E n \in 1..Len(AddressOrder), p \in Powers :
          state = TendermintGenesisState(n, p)

\* the wall clock at a call: the time of the proposal, and a time more than
\* two block times later
Times == {1, 1 + 2 * block_time + 1}

\* votes name the proposed block's hash or another hash, the height of the
\* round or of its successor, and any address
NextTendermint ==
    \/ /\ proposed = <<>>
       /\ \E validator_address \in Addr :
             TendermintProposeBlock(validator_address, validator_address, 1)
    \/ /\ proposed # <<>>
       /\ \E block_hash \in {proposed[1].hash, ZeroHash},
             height \in {Len(blocks), Len(blocks) + 1},
             validator_address \in Addr :
                AddVote(block_hash, height, validator_address)
    \/ /\ proposed # <<>>
       /\ \E now \in Times : TendermintAddBlock(proposed[1], now)
       /\ Len(blocks') <= (MaxHeight - 1) + 1

SpecTendermint == InitTendermint /\ [][NextTendermint]_vars

\* the distinct active validators with a vote in the round for a block's
\* hash at its height
VotersFor(round, block) ==
    {a \in DOMAIN get_active_validators(state) :
        \E i \in 1..Len(round.votes) :
            /\ round.votes[i].validator_address = a
            /\ round.votes[i].block_hash = block.hash
            /\ round.votes[i].height = block.height}

\* a step of add_block that commits a block
Commits ==
    /\ last'.op = "add_block" /\ last'.ok
    /\ Len(blocks') = Len(blocks) + 1

\* C16: with n active validators a block passes validate_block (and is
\* committed) only if at least floor(2n/3) + 1 distinct active validators
\* have voted for its hash at its height; repeated votes, votes of other
\* addresses and votes for another hash do not count
C16_CommitNeedsSupermajority ==
    [][Commits
        => LET block == blocks'[Len(blocks')]
               n == Cardinality(DOMAIN get_active_validators(state))
           IN  Cardinality(VotersFor(current_round, block))
                   >= ((2 * n) \div 3) + 1]_vars

\* C17: with n validators of equal power, sorted by address, the block
\* committed at height h was proposed by the validator at index h mod n
C17_EqualPowerRotation ==
    [][Commits
        => LET block == blocks'[Len(blocks')]
               sorted == SortedByAddress(get_active_validators(state))
           IN  block.validator_address
                   = sorted[(block.height % Len(sorted)) + 1]]_vars

\* VALIDATOR_UPDATE remove transactions of the tagged creator, one for each
\* genesis validator
RemoveInputs ==
    {Sign(ValidatorUpdateTransaction(Creator, v, "remove", 0, 1), Creator) :
        v \in Validators}

\* the engine of a restored chain, fed with validator removals
NextRotation ==
    \/ AddTransaction(RemoveInputs)
    \/ ProposeBlock
    \/ AddProposedBlock(MaxHeight)
    \/ AddCallerBlock(RemoveInputs, 1, MaxHeight)
    \/ AddValidatorToRotation

SpecRotation == InitRestored /\ [][NextRotation]_vars

MaxLeaves == 3          \* length of the list a tree is built over

\* the transactions whose digests are the leaves
MerkleTransactions == CustomInputs \cup {GenesisTransaction}

Hashes(transactions) ==
    [i \in 1..Len(transactions) |-> TxHash(transactions[i])]

\* a block and a MerkleTree built over the digests of the same transaction
\* list, the block kept where a caller keeps a block that is not committed
InitMerkle ==
    /\ blocks = <<GenesisBlock>>
    /\ pending_transactions = <<>>
    /\ state = GenesisState
    /\ permission_system = NewPermissionSystem
    /\ validator_list = <<>>
    /\ current_index = 0
    /\ current_round = NoRound
    /\ rbac = NoRBAC
    /\ mining = NoRequests
    /\ chain_info = NoInfo
    /\ consensus = NoPlugin
    /\ last = Result("init", TRUE, FALSE)
    /\ \E transactions \in TxSeqs(MerkleTransactions, MaxLeaves) :
          LET t == MerkleTree(Hashes(transactions))
          IN  /\ proposed = <<CallerBlock(1, GenesisBlock.hash, transactions,
                                          Creator)>>
              /\ merkle_tree = [raised |-> t.raised, leaves |-> t.leaves,
                                root |-> t.root, index |-> -1,
                                proof |-> <<>>, data |-> NoHash]

\* proof = tree.get_proof(index)
GetProof(index) ==
    LET r == get_proof(merkle_tree, index)
    IN  /\ ~merkle_tree.raised
        /\ merkle_tree' = IF r.raised THEN merkle_tree
                          ELSE [merkle_tree EXCEPT !.index = index,
                                                   !.proof = r.proof]
        /\ last' = Result("get_proof", ~r.raised, r.raised)
        /\ UNCHANGED <<rbac, mining, chain_info,
                       blocks, pending_transactions, state, permission_system,
                       validator_list, current_index, proposed, current_round, consensus>>

\* MerkleTree.verify_proof(data, proof, tree.get_root())
VerifyProof(data) ==
    /\ ~merkle_tree.raised
    /\ merkle_tree' = [merkle_tree EXCEPT !.data = data]
    /\ last' = Result("verify_proof",
                      verify_proof(data, merkle_tree.proof,
                                   get_root(merkle_tree)),
                      FALSE)
    /\ UNCHANGED <<rbac, mining, chain_info,
                   blocks, pending_transactions, state, permission_system,
                   validator_list, current_index, proposed, current_round, consensus>>

NextMerkle ==
    \/ \E index \in 0..MaxLeaves : GetProof(index)
    \/ \E tx \in MerkleTransactions : VerifyProof(TxHash(tx))

SpecMerkle == InitMerkle /\ [][NextMerkle]_vars

\* C19: the merkle_root of a block equals the root of the MerkleTree built
\* over the digests of the block's transactions, for the empty list (where
\* it is the hash of the empty string), one transaction (the hash of its
\* digest), odd and even lengths
C19_BlockRootIsTreeRoot ==
    \A i \in 1..Len(proposed) :
        LET transactions == proposed[i].transactions
            t == MerkleTree(Hashes(transactions))
        IN  /\ ~t.raised
            /\ proposed[i].merkle_root = get_root(t)
            /\ transactions = <<>> => get_root(t) = Sha256(<<>>)
            /\ Len(transactions) = 1
                  => get_root(t) = Sha256(TxHash(transactions[1]))

\* C20: verify_proof(x, get_proof(i), get_root()) is true for x = leaves[i]
\* and false for every other x, for each index i of a tree that is not
\* empty
C20_ProofAcceptsOnlyItsLeaf ==
    (last.op = "verify_proof" /\ merkle_tree.index >= 0)
        => (last.ok <=> merkle_tree.data
                            = merkle_tree.leaves[merkle_tree.index + 1])

\* the proof of the last leaf of a three-leaf tree, which is paired with
\* itself, has just been accepted
C20_Witness ==
    /\ last = Result("verify_proof", TRUE, FALSE)
    /\ Len(merkle_tree.leaves) = 3
    /\ merkle_tree.index = 2
    /\ merkle_tree.proof[1] = <<LeafHash(merkle_tree.leaves[3]), "right">>


(***************************************************************************)
(* Persistence of the permission system                                    *)
(***************************************************************************)
\* C21: for every reachable state x of the permission system,
\* from_dict(to_dict(x)) equals x, so every access_data call returns after
\* a save and reload of permissions.json what it returned before
C21_PermissionRoundTrip ==
    LET reloaded == mls_from_dict(mls_to_dict(permission_system))
    IN  /\ reloaded = permission_system
        /\ \A u \in Addr, id \in DataIds :
              access_data(reloaded, u, id).content
                = access_data(permission_system, u, id).content


(***************************************************************************)
(* Construction over a data directory                                      *)
(***************************************************************************)
\* what an engine of this chain saved at height 0: the chain as
\* _create_genesis wrote it, and one whose creator account is funded
SavedChains ==
    {[blocks |-> <<GenesisBlock>>, state |-> st,
      permission_system |-> NewPermissionSystem] :
        st \in {GenesisState, RestoredState(MaxInitBalance)}}

FileStatus == {"ok", "missing", "unreadable"}

\* the data directories the constructor may find
DataDirs ==
    {[blocks |-> PersistedFile(sb, saved.blocks),
      state |-> PersistedFile(ss, saved.state),
      permissions |-> PersistedFile(sp, mls_to_dict(saved.permission_system))] :
        saved \in SavedChains, sb \in FileStatus, ss \in FileStatus,
        sp \in FileStatus}

\* Blockchain.__init__ with the round-robin plug-in: consensus.initialize
\* runs on the empty state, before the chain is loaded or created
InitLoad ==
    \E files \in DataDirs :
        LET r == LoadOrCreateGenesis(files)
        IN  /\ blocks = r.c.blocks
            /\ state = r.c.state
            /\ permission_system = r.c.permission_system
            /\ pending_transactions = <<>>
            /\ validator_list = <<>>
            /\ current_index = 0
            /\ proposed = <<>>
            /\ last = Result("init", TRUE, r.raised)
            /\ current_round = NoRound
            /\ merkle_tree = NoTree
            /\ rbac = NoRBAC
            /\ mining = NoRequests
            /\ chain_info = NoInfo
            /\ consensus = NoPlugin

SpecLoad == InitLoad /\ [][Next]_vars

\* C22: when loading the persisted files fails at any point, the engine
\* starts from a fresh genesis: the block list is exactly the single
\* genesis block, the state is at height 0 with the genesis hash as
\* last_block_hash, and the validators are the supplied genesis validators
C22_FailedLoadStartsFromGenesis ==
    (last.op = "init" /\ last.raised) =>
        /\ blocks = <<GenesisBlock>>
        /\ state.height = 0
        /\ state.last_block_hash = GenesisBlock.hash
        /\ state.validators = GenesisState.validators

\* C23: after construction, from a fresh genesis or from persisted files,
\* the rotation list holds the addresses of the active validators of the
\* state, so a block for height tip+1 by the validator select_proposer
\* names passes validate_block
C23_RotationReflectsValidators ==
    last.op = "init" =>
        LET active == get_active_validators(state)
            tip == blocks[Len(blocks)]
            proposer == select_proposer(tip.height + 1, active).proposer
        IN  /\ {validator_list[i] : i \in 1..Len(validator_list)}
                 = DOMAIN active
            /\ validate_block(CallerBlock(tip.height + 1, tip.hash, <<>>,
                                          proposer), state).ok


(***************************************************************************)
(* The engine with another plug-in.  The plug-in's attributes are the      *)
(* record consensus; a plug-in method that changes them returns the record *)
(* it leaves behind.                                                       *)
(***************************************************************************)
\* key=lambda tx: (tx.<key[1]>, tx.<key[2]>, ...)
KeyLess(a, b, key) ==
    \E i \in 1..Len(key) :
        /\ a[key[i]] < b[key[i]]
        /\ \A j \in 1..(i - 1) : a[key[j]] = b[key[j]]

RECURSIVE InsertByKey(_, _, _)
\* insert tx behind every element whose key is not greater (stable)
InsertByKey(sorted, tx, key) ==
    IF sorted = <<>> THEN <<tx>>
    ELSE IF KeyLess(tx, sorted[1], key) THEN <<tx>> \o sorted
    ELSE <<sorted[1]>> \o InsertByKey(Tail(sorted), tx, key)

RECURSIVE SortedByKey(_, _)
\* sorted(pending_transactions, key=...)
SortedByKey(txs, key) ==
    IF txs = <<>> THEN <<>>
    ELSE InsertByKey(SortedByKey(SubSeq(txs, 1, Len(txs) - 1), key),
                     txs[Len(txs)], key)

\* Blockchain.propose_block: the plug-in selected transactions, prepared
\* data and is left as plugin; now is time.time() at Block(...)
PluginProposeBlock(validator_address, key_owner, now, transactions, data, plugin) ==
    LET active == /\ validator_address \in DOMAIN state.validators
                  /\ state.validators[validator_address].active
        last_block == blocks[Len(blocks)]
        block == Block((Len(blocks) - 1) + 1, last_block.hash, transactions,
                       validator_address, data, now)
        signature == sign_message(block.merkle_root, key_owner)
    IN  /\ proposed' = IF active THEN <<finalize(block, signature)>> ELSE <<>>
        /\ consensus' = IF active THEN plugin ELSE consensus
        /\ last' = Result("propose_block", active, FALSE)
        /\ UNCHANGED <<rbac, mining, chain_info,
                       blocks, pending_transactions, state, permission_system,
                       validator_list, current_index, current_round,
                       merkle_tree>>

\* the outcome of a call that an exception left: nothing was returned
Propagated(op) == [op |-> op, ok |-> FALSE, raised |-> TRUE, returned |-> FALSE]

\* the state add_block hands to the plug-in's validate_block
VerifiedState(block) == _verify_block(Engine, block).e.state

\* the state add_block hands to the plug-in's on_block_committed
CommittedState(block) ==
    LET x == _execute_block_transactions(_verify_block(Engine, block).e, block)
        hashed ==
            calculate_app_hash([x.e.state EXCEPT !.height = block.height,
                                                 !.last_block_hash = block.hash])
    IN  IF block.validator_address \in DOMAIN hashed.validators
        THEN [hashed EXCEPT
                !.validators[block.validator_address].total_blocks_proposed
                    = @ + 1]
        ELSE hashed

\* Blockchain.add_block: c is what the plug-in's validate_block gives for
\* (block, VerifiedState(block)), [ok, raised, plugin]; committed is the
\* plug-in after its on_block_committed(block, CommittedState(block)).
\* Nothing in add_block catches an exception of validate_block.
PluginAddBlock(block, c, committed) ==
    LET v == _verify_block(Engine, block)
        x == _execute_block_transactions(v.e, block)
        executed_hashes == {TxHash(block.transactions[i]) :
                                i \in 1..Len(block.transactions)}
        counted == CommittedState(block)
        remaining == SelectSeq(pending_transactions,
                               LAMBDA tx : TxHash(tx) \notin executed_hashes)
    IN  IF ~v.ok
        THEN /\ state' = v.e.state
             /\ permission_system' = v.e.permission_system
             /\ last' = Result("add_block", FALSE, FALSE)
             /\ proposed' = <<>>
             /\ UNCHANGED <<rbac, mining, chain_info,
                            blocks, pending_transactions, validator_list,
                            current_index, current_round, merkle_tree,
                            consensus>>
        ELSE IF c.raised \/ ~c.ok
        THEN /\ state' = v.e.state
             /\ permission_system' = v.e.permission_system
             /\ consensus' = c.plugin
             /\ last' = IF c.raised THEN Propagated("add_block")
                        ELSE Result("add_block", FALSE, FALSE)
             /\ proposed' = <<>>
             /\ UNCHANGED <<rbac, mining, chain_info,
                            blocks, pending_transactions, validator_list,
                            current_index, current_round, merkle_tree>>
        ELSE IF ~x.ok
        THEN /\ state' = x.e.state
             /\ permission_system' = x.e.permission_system
             /\ consensus' = c.plugin
             /\ last' = Result("add_block", FALSE, TRUE)
             /\ proposed' = <<>>
             /\ UNCHANGED <<rbac, mining, chain_info,
                            blocks, pending_transactions, validator_list,
                            current_index, current_round, merkle_tree>>
        ELSE /\ blocks' = Append(blocks, block)
             /\ state' = counted
             /\ permission_system' = x.e.permission_system
             /\ pending_transactions' = remaining
             /\ consensus' = committed
             /\ last' = Result("add_block", TRUE, FALSE)
             /\ proposed' = <<>>
             /\ UNCHANGED <<rbac, mining, chain_info,
                            validator_list, current_index, current_round,
                            merkle_tree>>

\* a call on the plug-in object itself
PluginCall(op, ok, plugin) ==
    /\ consensus' = plugin
    /\ last' = Result(op, ok, FALSE)
    /\ UNCHANGED <<rbac, mining, chain_info,
                   blocks, pending_transactions, state, permission_system,
                   validator_list, current_index, proposed, current_round,
                   merkle_tree>>


(***************************************************************************)
(* ProofOfAuthority (consensus/poa.py): consensus is                       *)
(* [authorities, current_proposer_index]                                   *)
(***************************************************************************)
poa_block_time == 2
poa_max_block_size == 2000

\* ProofOfAuthority.__init__ and initialize: the configured authorities,
\* or the active validators of the state at the call, which is empty
ProofOfAuthority(authorities) ==
    [authorities |-> authorities, current_proposer_index |-> 0]

poa_select_transactions(pending, proposer_address) ==
    Prefix(SortedByKey(pending, <<"timestamp", "nonce">>), poa_max_block_size)

poa_prepare_consensus_data(plugin, proposer_address) ==
    <<"poa", proposer_address, plugin.current_proposer_index,
      Len(plugin.authorities)>>

\* ProofOfAuthority.select_proposer: [proposer, plugin]
poa_select_proposer(plugin, height) ==
    IF plugin.authorities = <<>>
    THEN [proposer |-> NoAddr, plugin |-> plugin]
    ELSE LET index == height % Len(plugin.authorities)
         IN  [proposer |-> plugin.authorities[index + 1],
              plugin |-> [plugin EXCEPT !.current_proposer_index = index]]

\* ProofOfAuthority.validate_block: [ok, raised, plugin].  The block-time
\* test reads state.blockchain, an attribute BlockchainState does not
\* have, so a block of the expected authority ends in AttributeError
\* before any timestamp is compared
poa_validate_block(plugin, block, st) ==
    IF ~InList(block.validator_address, plugin.authorities)
    THEN [ok |-> FALSE, raised |-> FALSE, plugin |-> plugin]
    ELSE LET r == poa_select_proposer(plugin, block.height)
         IN  IF block.validator_address # r.proposer
             THEN [ok |-> FALSE, raised |-> FALSE, plugin |-> r.plugin]
             ELSE [ok |-> FALSE, raised |-> TRUE, plugin |-> r.plugin]

poa_on_block_committed(plugin, block, st) ==
    [plugin EXCEPT !.current_proposer_index =
                      (@ + 1) % Len(plugin.authorities)]

\* ProofOfAuthority.add_authority / remove_authority: [ok, plugin]
add_authority(plugin, address) ==
    IF ~InList(address, plugin.authorities)
    THEN [ok |-> TRUE,
          plugin |-> [plugin EXCEPT !.authorities = Append(@, address)]]
    ELSE [ok |-> FALSE, plugin |-> plugin]

remove_authority(plugin, address) ==
    IF InList(address, plugin.authorities)
    THEN [ok |-> TRUE,
          plugin |-> [plugin EXCEPT !.authorities = RemoveFirst(@, address)]]
    ELSE [ok |-> FALSE, plugin |-> plugin]

\* a chain whose plug-in was configured with the genesis validators as
\* authorities, or with none
InitPoA ==
    /\ blocks = <<GenesisBlock>>
    /\ pending_transactions = <<>>
    /\ state = GenesisState
    /\ permission_system = NewPermissionSystem
    /\ validator_list = <<>>
    /\ current_index = 0
    /\ proposed = <<>>
    /\ last = Result("init", TRUE, FALSE)
    /\ current_round = NoRound
    /\ merkle_tree = NoTree
    /\ rbac = NoRBAC
    /\ mining = NoRequests
    /\ chain_info = NoInfo
    /\ consensus \in {ProofOfAuthority(GenesisValidators),
                      ProofOfAuthority(<<>>)}

\* the time of a block: that of the genesis block, or later by half a
\* block time or by a whole one
PoATimes == {0, poa_block_time \div 2, poa_block_time}

\* add_block of an engine built with this plug-in
PoAAddBlock(block) ==
    LET c == poa_validate_block(consensus, block, VerifiedState(block))
    IN  PluginAddBlock(block, c,
                       poa_on_block_committed(c.plugin, block,
                                              CommittedState(block)))

NextPoA ==
    \/ AddTransaction(CustomInputs)
    \/ /\ proposed = <<>>
       /\ \E validator_address \in Addr, now \in PoATimes :
             PluginProposeBlock(
                 validator_address, validator_address, now,
                 poa_select_transactions(pending_transactions,
                                         validator_address),
                 poa_prepare_consensus_data(consensus, validator_address),
                 consensus)
    \/ /\ proposed # <<>>
       /\ PoAAddBlock(proposed[1])
    \/ /\ proposed = <<>>
       /\ \E address \in Validators :
             \/ LET r == add_authority(consensus, address)
                IN  PluginCall("add_authority", r.ok, r.plugin)
             \/ LET r == remove_authority(consensus, address)
                IN  PluginCall("remove_authority", r.ok, r.plugin)

SpecPoA == InitPoA /\ [][NextPoA]_vars

\* C24: for a block at height h by authorities[h mod |authorities|],
\* validate_block returns false when the block's timestamp is less than
\* block_time/2 after the previous block's and true otherwise, so add_block
\* always ends with a boolean outcome
C24_PoAMinimumDelay ==
    /\ proposed # <<>> =>
          LET block == proposed[1]
              previous_block == blocks[block.height]
              c == poa_validate_block(consensus, block, state)
              n == Len(consensus.authorities)
          IN  (n > 0 /\ block.validator_address
                          = consensus.authorities[(block.height % n) + 1])
                  => /\ ~c.raised
                     /\ c.ok = ~(2 * (block.timestamp - previous_block.timestamp)
                                   < poa_block_time)
    /\ last # Propagated("add_block")


(***************************************************************************)
(* VotingBasedConsensus (consensus/voting.py): consensus is                *)
(* [proposals, votes, proposal_times, last_committed_height], the three    *)
(* dicts as maps over block hashes                                         *)
(***************************************************************************)
voting_max_block_size == 1000
voting_threshold_percent == 66      \* 'voting_threshold': 0.66
proposal_timeout == 10
max_concurrent_proposals == 3

VotingBasedConsensus ==
    [proposals |-> EmptyMap, votes |-> EmptyMap, proposal_times |-> EmptyMap,
     last_committed_height |-> 0]

\* del d[key] / d[key] = value
Without(d, key) == [k \in DOMAIN d \ {key} |-> d[k]]
With(d, key, value) == [k \in DOMAIN d \cup {key} |-> IF k = key THEN value ELSE d[k]]

voting_select_transactions(pending, proposer_address) ==
    Prefix(SortedByKey(pending, <<"timestamp", "nonce">>), voting_max_block_size)

\* now is time.time()
voting_prepare_consensus_data(proposer_address, now) ==
    <<"voting", proposer_address, voting_threshold_percent, now>>

\* int(len(validators) * self.config['voting_threshold'])
required_votes(st) ==
    (Cardinality(DOMAIN get_active_validators(st)) * voting_threshold_percent)
        \div 100

\* VotingBasedConsensus.validate_block: [ok, raised, plugin]; the votes
\* are counted only when the block's hash is a key of self.votes
voting_validate_block(plugin, block, st) ==
    LET active == /\ block.validator_address \in DOMAIN st.validators
                  /\ st.validators[block.validator_address].active
        ok == /\ active
              /\ block.hash \in DOMAIN plugin.votes
                    => Cardinality(plugin.votes[block.hash])
                          >= required_votes(st)
    IN  [ok |-> ok, raised |-> FALSE, plugin |-> plugin]

_remove_proposal(plugin, block_hash) ==
    [plugin EXCEPT !.proposals = Without(@, block_hash),
                   !.votes = Without(@, block_hash),
                   !.proposal_times = Without(@, block_hash)]

\* _get_active_proposals: [active, plugin]; the proposals that are no
\* longer active are removed
_get_active_proposals(plugin, now) ==
    LET active == {h \in DOMAIN plugin.proposal_times :
                      now - plugin.proposal_times[h] < proposal_timeout}
    IN  [active |-> active,
         plugin |-> [plugin EXCEPT
                        !.proposals = [h \in DOMAIN @ \cap active |-> @[h]],
                        !.votes = [h \in DOMAIN @ \cap active |-> @[h]],
                        !.proposal_times = [h \in active |-> @[h]]]]

\* propose_block_for_voting: [ok, plugin]
propose_block_for_voting(plugin, block, now) ==
    LET a == _get_active_proposals(plugin, now)
    IN  IF Cardinality(a.active) >= max_concurrent_proposals
           \/ block.hash \in DOMAIN a.plugin.proposals
        THEN [ok |-> FALSE, plugin |-> a.plugin]
        ELSE [ok |-> TRUE,
              plugin |-> [a.plugin EXCEPT
                            !.proposals = With(@, block.hash, block),
                            !.votes = With(@, block.hash, {}),
                            !.proposal_times = With(@, block.hash, now)]]

\* cast_vote: [ok, plugin]; st is self.blockchain.state
cast_vote(plugin, st, block_hash, voter_address, now) ==
    IF block_hash \notin DOMAIN plugin.proposals
    THEN [ok |-> FALSE, plugin |-> plugin]
    ELSE IF \/ block_hash \notin DOMAIN plugin.proposal_times
            \/ now - plugin.proposal_times[block_hash] > proposal_timeout
    THEN [ok |-> FALSE, plugin |-> _remove_proposal(plugin, block_hash)]
    ELSE IF ~(/\ voter_address \in DOMAIN st.validators
              /\ st.validators[voter_address].active)
    THEN [ok |-> FALSE, plugin |-> plugin]
    ELSE IF voter_address \in plugin.votes[block_hash]
    THEN [ok |-> FALSE, plugin |-> plugin]
    ELSE LET voted == [plugin EXCEPT !.votes[block_hash] =
                                          @ \cup {voter_address}]
         IN  [ok |-> Cardinality(voted.votes[block_hash]) >= required_votes(st),
              plugin |-> voted]

\* on_block_committed: the proposals up to the committed height go
voting_on_block_committed(plugin, block, st) ==
    LET kept == {h \in DOMAIN plugin.proposals :
                    h # block.hash /\ plugin.proposals[h].height > block.height}
    IN  [proposals |-> [h \in kept |-> plugin.proposals[h]],
         votes |-> [h \in DOMAIN plugin.votes \ (DOMAIN plugin.proposals \ kept)
                       |-> plugin.votes[h]],
         proposal_times |-> [h \in DOMAIN plugin.proposal_times
                                     \ (DOMAIN plugin.proposals \ kept)
                                |-> plugin.proposal_times[h]],
         last_committed_height |-> block.height]


\* a fresh chain of two or three validators under the voting plug-in
InitVoting ==
    /\ blocks = <<GenesisBlock>>
    /\ pending_transactions = <<>>
    /\ \E n \in 2..Len(AddressOrder) :
          state = TendermintGenesisState(n, DefaultPower)
    /\ permission_system = NewPermissionSystem
    /\ validator_list = <<>>
    /\ current_index = 0
    /\ proposed = <<>>
    /\ last = Result("init", TRUE, FALSE)
    /\ current_round = NoRound
    /\ merkle_tree = NoTree
    /\ rbac = NoRBAC
    /\ mining = NoRequests
    /\ chain_info = NoInfo
    /\ consensus = VotingBasedConsensus

\* the wall clock at a call: the time of the first proposal, and a time
\* by which that proposal has expired
VotingTimes == {1, 1 + proposal_timeout + 1}

\* add_block of an engine built with this plug-in
VotingAddBlock(block) ==
    LET c == voting_validate_block(consensus, block, VerifiedState(block))
    IN  PluginAddBlock(block, c,
                       voting_on_block_committed(c.plugin, block,
                                              CommittedState(block)))

\* the proposer builds a block, may submit it for voting, the validators
\* may vote for it, and the block is handed to add_block
NextVoting ==
    \/ /\ proposed = <<>>
       /\ \E validator_address \in Addr, now \in VotingTimes :
             PluginProposeBlock(
                 validator_address, validator_address, now,
                 voting_select_transactions(pending_transactions,
                                            validator_address),
                 voting_prepare_consensus_data(validator_address, now),
                 consensus)
    \/ /\ proposed # <<>>
       /\ \E now \in VotingTimes :
             LET r == propose_block_for_voting(consensus, proposed[1], now)
             IN  PluginCall("propose_block_for_voting", r.ok, r.plugin)
    \/ /\ proposed # <<>>
       /\ \E voter_address \in Addr, now \in VotingTimes :
             LET r == cast_vote(consensus, state, proposed[1].hash,
                                voter_address, now)
             IN  PluginCall("cast_vote", r.ok, r.plugin)
    \/ /\ proposed # <<>>
       /\ VotingAddBlock(proposed[1])
       /\ Len(blocks') <= (MaxHeight - 1) + 1

SpecVoting == InitVoting /\ [][NextVoting]_vars

\* C25: a block passes validate_block only if at least
\* ceil(|active| * voting_threshold) distinct active validators have voted
\* for its hash; a block never submitted with propose_block_for_voting,
\* or submitted with fewer votes, is rejected
C25_AcceptanceNeedsVotes ==
    proposed # <<>> =>
        LET block == proposed[1]
            active == DOMAIN get_active_validators(state)
            needed == (Cardinality(active) * voting_threshold_percent + 99)
                          \div 100
        IN  voting_validate_block(consensus, block, state).ok
                => /\ block.hash \in DOMAIN consensus.votes
                   /\ Cardinality(consensus.votes[block.hash] \cap active)
                         >= needed


(***************************************************************************)
(* HybridConsensus (consensus/hybrid.py): consensus is [authorities,       *)
(* current_authority_index, pending_votes, stakes, validator_scores,       *)
(* last_rotation_height]; pending_votes maps a transaction hash to the map *)
(* voter -> approve.  Scores are kept doubled (stake_weight is 0.5).       *)
(***************************************************************************)
hybrid_max_block_size == 1500
num_authorities == 5
authority_rotation_interval == 100
hybrid_threshold_percent == 66      \* 'voting_threshold': 0.66
min_stake == 100

HybridConsensus ==
    [authorities |-> <<>>, current_authority_index |-> 0,
     pending_votes |-> EmptyMap, stakes |-> EmptyMap,
     validator_scores |-> EmptyMap, last_rotation_height |-> 0]

\* d.get(key, 0)
GetOrZero(d, key) == IF key \in DOMAIN d THEN d[key] ELSE 0

\* _calculate_validator_score, doubled: stake + performance
_calculate_validator_score(plugin, address, validator) ==
    LET total_blocks == validator.total_blocks_proposed
                          + validator.total_blocks_signed
        performance == IF total_blocks > 0
                       THEN (validator.total_blocks_signed * 100)
                               \div total_blocks
                       ELSE 50
    IN  GetOrZero(plugin.stakes, address) + performance

\* _select_authorities: the active validators by descending score (the
\* sort is stable over the order of the validators dict), the first
\* num_authorities of them
_select_authorities(plugin, st) ==
    LET validators == get_active_validators(st)
        order == SortedByAddress(validators)
        score(a) == GetOrZero(plugin.validator_scores, a)
        before(a, b) ==
            \/ score(a) > score(b)
            \/ /\ score(a) = score(b)
               /\ \E i, j \in 1..Len(order) :
                     i < j /\ order[i] = a /\ order[j] = b
        rank(a) == Cardinality({b \in DOMAIN validators : before(b, a)})
        sorted_validators ==
            [i \in 1..Len(order) |->
                CHOOSE a \in DOMAIN validators : rank(a) = i - 1]
    IN  [plugin EXCEPT !.authorities =
                          Prefix(sorted_validators, num_authorities)]

\* HybridConsensus.initialize on a chain whose state is st
hybrid_initialize(plugin, st) ==
    LET validators == get_active_validators(st)
        staked == [plugin EXCEPT !.stakes =
                     [a \in DOMAIN @ \cup DOMAIN validators |->
                        IF a \in DOMAIN validators
                        THEN validators[a].power * 10 ELSE @[a]]]
        scored == [staked EXCEPT !.validator_scores =
                     [a \in DOMAIN @ \cup DOMAIN validators |->
                        IF a \in DOMAIN validators
                        THEN _calculate_validator_score(staked, a,
                                                        validators[a])
                        ELSE @[a]]]
    IN  _select_authorities(scored, st)

_requires_voting(tx) ==
    tx.tx_type \in {"validator_update", "permission_grant",
                    "permission_revoke"}

\* _has_sufficient_votes: the approvals against
\* int(len(validators) * voting_threshold)
_has_sufficient_votes(plugin, tx, st) ==
    /\ TxHash(tx) \in DOMAIN plugin.pending_votes
    /\ LET votes == plugin.pending_votes[TxHash(tx)]
           approve_count == Cardinality({v \in DOMAIN votes : votes[v]})
       IN  approve_count
             >= (Cardinality(DOMAIN get_active_validators(st))
                    * hybrid_threshold_percent) \div 100

hybrid_select_transactions(plugin, pending, st) ==
    SelectSeq(Prefix(SortedByKey(pending, <<"timestamp">>),
                     hybrid_max_block_size),
              LAMBDA tx : _requires_voting(tx)
                             => _has_sufficient_votes(plugin, tx, st))

hybrid_prepare_consensus_data(plugin, proposer_address, previous_block) ==
    <<"hybrid", proposer_address, plugin.current_authority_index,
      Len(plugin.authorities), GetOrZero(plugin.stakes, proposer_address),
      GetOrZero(plugin.validator_scores, proposer_address),
      previous_block.height \div authority_rotation_interval>>

\* HybridConsensus.select_proposer: [proposer, plugin]; st is
\* self.blockchain.state
hybrid_select_proposer(plugin, height, st) ==
    IF plugin.authorities = <<>>
    THEN [proposer |-> NoAddr, plugin |-> plugin]
    ELSE LET rotated ==
                 IF height - plugin.last_rotation_height
                      >= authority_rotation_interval
                 THEN [_select_authorities(plugin, st)
                       EXCEPT !.last_rotation_height = height]
                 ELSE plugin
             index == height % Len(rotated.authorities)
         IN  [proposer |-> rotated.authorities[index + 1],
              plugin |-> [rotated EXCEPT !.current_authority_index = index]]

\* HybridConsensus.validate_block: [ok, raised, plugin]
hybrid_validate_block(plugin, block, st) ==
    IF ~InList(block.validator_address, plugin.authorities)
    THEN [ok |-> FALSE, raised |-> FALSE, plugin |-> plugin]
    ELSE LET r == hybrid_select_proposer(plugin, block.height, st)
         IN  [ok |-> /\ block.validator_address = r.proposer
                     /\ GetOrZero(r.plugin.stakes, block.validator_address)
                           >= min_stake,
              raised |-> FALSE, plugin |-> r.plugin]

\* cast_vote_for_transaction: [ok, plugin]
cast_vote_for_transaction(plugin, st, tx_hash, voter_address, approve) ==
    IF ~(/\ voter_address \in DOMAIN st.validators
         /\ st.validators[voter_address].active)
    THEN [ok |-> FALSE, plugin |-> plugin]
    ELSE LET votes == IF tx_hash \in DOMAIN plugin.pending_votes
                      THEN plugin.pending_votes[tx_hash] ELSE EmptyMap
         IN  [ok |-> TRUE,
              plugin |-> [plugin EXCEPT !.pending_votes =
                            With(@, tx_hash,
                                 With(votes, voter_address, approve))]]

hybrid_on_block_committed(plugin, block, st) ==
    LET a == block.validator_address
        scored == IF a \in DOMAIN st.validators
                  THEN [plugin EXCEPT !.validator_scores =
                          With(@, a, _calculate_validator_score(
                                         plugin, a, st.validators[a]))]
                  ELSE plugin
        cleaned == [scored EXCEPT !.pending_votes =
                      [h \in DOMAIN @ \ {TxHash(block.transactions[i]) :
                                            i \in 1..Len(block.transactions)}
                          |-> @[h]]]
    IN  IF block.height - cleaned.last_rotation_height
             >= authority_rotation_interval
        THEN [_select_authorities(cleaned, st)
              EXCEPT !.last_rotation_height = block.height]
        ELSE cleaned


\* a restored chain under the hybrid plug-in: initialize ran on the empty
\* state of the constructor
InitHybrid ==
    /\ blocks = <<GenesisBlock>>
    /\ pending_transactions = <<>>
    /\ state = RestoredState(MaxInitBalance)
    /\ permission_system = NewPermissionSystem
    /\ validator_list = <<>>
    /\ current_index = 0
    /\ proposed = <<>>
    /\ last = Result("init", TRUE, FALSE)
    /\ current_round = NoRound
    /\ merkle_tree = NoTree
    /\ rbac = NoRBAC
    /\ mining = NoRequests
    /\ chain_info = NoInfo
    /\ consensus = HybridConsensus

\* a flat grant of the tagged creator, which requires voting, and a custom
\* transaction, which does not
HybridInputs ==
    {Sign(PermissionTransaction(Creator, "a2", "can_transfer", "grant", 0, 0, 1),
          Creator)}
    \cup UngatedInputs

\* add_block of an engine built with this plug-in
HybridAddBlock(block) ==
    LET c == hybrid_validate_block(consensus, block, VerifiedState(block))
    IN  PluginAddBlock(block, c,
                       hybrid_on_block_committed(c.plugin, block,
                                              CommittedState(block)))

\* a block a caller builds itself for the tip
HybridCallerBlock(transactions, validator_address) ==
    LET tip == blocks[Len(blocks)]
        b == Block(Len(blocks), tip.hash, transactions, validator_address,
                   hybrid_prepare_consensus_data(consensus, validator_address,
                                                 tip), 1)
    IN  finalize(b, sign_message(b.merkle_root, validator_address))

\* votes are cast and transactions submitted while no proposal is open;
\* the operator may run initialize again once the validators are in the
\* state
NextHybrid ==
    \/ AddTransaction(HybridInputs)
    \/ /\ proposed = <<>>
       /\ \E tx \in HybridInputs, voter_address \in Addr, approve \in BOOLEAN :
             LET r == cast_vote_for_transaction(consensus, state, TxHash(tx),
                                                voter_address, approve)
             IN  PluginCall("cast_vote_for_transaction", r.ok, r.plugin)
    \/ /\ proposed = <<>>
       /\ \E validator_address \in Validators :
             PluginProposeBlock(
                 validator_address, validator_address, 1,
                 hybrid_select_transactions(consensus, pending_transactions,
                                            state),
                 hybrid_prepare_consensus_data(consensus, validator_address,
                                               blocks[Len(blocks)]),
                 consensus)
    \/ /\ proposed # <<>>
       /\ HybridAddBlock(proposed[1])
       /\ Len(blocks') <= (MaxHeight - 1) + 1
    \/ /\ proposed = <<>>
       /\ \E txs \in TxSeqs(HybridInputs, 1), validator_address \in Validators :
             HybridAddBlock(HybridCallerBlock(txs, validator_address))
       /\ Len(blocks') <= (MaxHeight - 1) + 1
    \/ /\ proposed = <<>>
       /\ last.op = "init"
       /\ PluginCall("initialize", TRUE, hybrid_initialize(consensus, state))

SpecHybrid == InitHybrid /\ [][NextHybrid]_vars

\* the approving votes recorded for tx are at least the voting_threshold
\* fraction of the active validators
ApprovedByThreshold(plugin, st, tx) ==
    /\ TxHash(tx) \in DOMAIN plugin.pending_votes
    /\ LET votes == plugin.pending_votes[TxHash(tx)]
           active == DOMAIN get_active_validators(st)
       IN  Cardinality({v \in DOMAIN votes \cap active : votes[v]}) * 100
              >= Cardinality(active) * hybrid_threshold_percent

\* C26: every VALIDATOR_UPDATE, PERMISSION_GRANT and PERMISSION_REVOKE
\* transaction in a block that propose_block builds or add_block commits
\* has, at that call, approving votes of at least the voting_threshold
\* fraction of the active validators
C26_ImportantNeedApprovals ==
    [][/\ (last'.op = "propose_block" /\ last'.ok)
            => \A i \in 1..Len(proposed'[1].transactions) :
                  LET tx == proposed'[1].transactions[i]
                  IN  _requires_voting(tx)
                         => ApprovedByThreshold(consensus, state, tx)
       /\ (last'.op = "add_block" /\ last'.ok)
            => \A i \in 1..Len(blocks'[Len(blocks')].transactions) :
                  LET tx == blocks'[Len(blocks')].transactions[i]
                  IN  _requires_voting(tx)
                         => ApprovedByThreshold(consensus, state, tx)]_vars


(***************************************************************************)
(* PBFT (consensus/pbft.py): consensus is [view, sequence,                 *)
(* prepared_certificates, committed_certificates], the certificates as     *)
(* maps block hash -> set of validators                                    *)
(***************************************************************************)
pbft_max_block_size == 1000
MaxSequence == 3        \* propose_block calls of a run
MaxView == 1            \* view changes of a run

PBFT ==
    [view |-> 0, sequence |-> 0, prepared_certificates |-> EmptyMap,
     committed_certificates |-> EmptyMap]

pbft_select_transactions(pending, proposer_address) ==
    Prefix(SortedByKey(pending, <<"timestamp">>), pbft_max_block_size)

\* PBFT.prepare_consensus_data: [data, plugin]; the call itself advances
\* the sequence number.  data is <<consensus, view, sequence, primary,
\* phase>>
pbft_prepare_consensus_data(plugin, proposer_address) ==
    LET next == [plugin EXCEPT !.sequence = @ + 1]
    IN  [data |-> <<"pbft", next.view, next.sequence, proposer_address,
                    "pre_prepare">>,
         plugin |-> next]

\* PBFT._get_primary
_get_primary(plugin, validators) ==
    IF DOMAIN validators = {} THEN NoAddr
    ELSE LET sorted_validators == SortedByAddress(validators)
         IN  sorted_validators[(plugin.view % Len(sorted_validators)) + 1]

\* PBFT.validate_block: [ok, raised, plugin]
pbft_validate_block(plugin, block, st) ==
    [ok |-> /\ block.validator_address
                 = _get_primary(plugin, get_active_validators(st))
            /\ block.consensus_data[3] = plugin.sequence
            /\ block.consensus_data[2] = plugin.view,
     raised |-> FALSE, plugin |-> plugin]

\* add_prepare_message / add_commit_message on the certificate map
\* certificates: [ok, certificates]
AddCertificate(certificates, st, block_hash, validator) ==
    LET signers == (IF block_hash \in DOMAIN certificates
                    THEN certificates[block_hash] ELSE {}) \cup {validator}
        n == Cardinality(DOMAIN get_active_validators(st))
    IN  [ok |-> Cardinality(signers) >= 2 * ((n - 1) \div 3) + 1,
         certificates |-> With(certificates, block_hash, signers)]

trigger_view_change(plugin) ==
    [plugin EXCEPT !.view = @ + 1, !.prepared_certificates = EmptyMap,
                   !.committed_certificates = EmptyMap]

pbft_on_block_committed(plugin, block, st) ==
    [plugin EXCEPT !.prepared_certificates = Without(@, block.hash),
                   !.committed_certificates = Without(@, block.hash)]

\* a fresh chain under PBFT
InitPBFT ==
    /\ blocks = <<GenesisBlock>>
    /\ pending_transactions = <<>>
    /\ state = GenesisState
    /\ permission_system = NewPermissionSystem
    /\ validator_list = <<>>
    /\ current_index = 0
    /\ proposed = <<>>
    /\ last = Result("init", TRUE, FALSE)
    /\ current_round = NoRound
    /\ merkle_tree = NoTree
    /\ rbac = NoRBAC
    /\ mining = NoRequests
    /\ chain_info = NoInfo
    /\ consensus = PBFT

\* add_block of an engine built with this plug-in
PBFTAddBlock(block) ==
    LET c == pbft_validate_block(consensus, block, VerifiedState(block))
    IN  PluginAddBlock(block, c,
                       pbft_on_block_committed(c.plugin, block,
                                              CommittedState(block)))

\* propose_block by any address; a second propose_block while the caller
\* still holds the first block (it keeps the first); prepare and commit
\* messages for the held block; add_block of the held block; a view change
NextPBFT ==
    \/ /\ proposed = <<>>
       /\ consensus.sequence < MaxSequence
       /\ \E validator_address \in Addr :
             LET c == pbft_prepare_consensus_data(consensus, validator_address)
             IN  PluginProposeBlock(
                     validator_address, validator_address, 1,
                     pbft_select_transactions(pending_transactions,
                                              validator_address),
                     c.data, c.plugin)
    \/ /\ proposed # <<>>
       /\ consensus.sequence < MaxSequence
       /\ \E validator_address \in Validators :
             /\ state.validators[validator_address].active
             /\ consensus' = pbft_prepare_consensus_data(
                                 consensus, validator_address).plugin
             /\ last' = Result("propose_block", TRUE, FALSE)
             /\ UNCHANGED <<rbac, mining, chain_info,
                            blocks, pending_transactions, state,
                            permission_system, validator_list, current_index,
                            proposed, current_round, merkle_tree>>
    \/ /\ proposed # <<>>
       /\ \E validator \in Validators :
             \/ LET r == AddCertificate(consensus.prepared_certificates, state,
                                        proposed[1].hash, validator)
                IN  PluginCall("add_prepare_message", r.ok,
                               [consensus EXCEPT !.prepared_certificates =
                                                    r.certificates])
             \/ LET r == AddCertificate(consensus.committed_certificates,
                                        state, proposed[1].hash, validator)
                IN  PluginCall("add_commit_message", r.ok,
                               [consensus EXCEPT !.committed_certificates =
                                                    r.certificates])
    \/ /\ proposed # <<>>
       /\ PBFTAddBlock(proposed[1])
       /\ Len(blocks') <= MaxHeight + 1
    \/ /\ consensus.view < MaxView
       /\ PluginCall("trigger_view_change", TRUE,
                     trigger_view_change(consensus))

SpecPBFT == InitPBFT /\ [][NextPBFT]_vars

\* C27: the sequence number equals the number of blocks accepted since the
\* plug-in was created (whenever no proposal is open), and a block the
\* primary proposed for the next height still passes the sequence check of
\* validate_block after further propose_block calls in the same view
C27_SequenceCountsAcceptedBlocks ==
    /\ proposed = <<>> => consensus.sequence = Len(blocks) - 1
    /\ (/\ proposed # <<>>
        /\ proposed[1].validator_address
             = _get_primary(consensus, get_active_validators(state))
        /\ proposed[1].consensus_data[2] = consensus.view)
          => pbft_validate_block(consensus, proposed[1], state).ok


(***************************************************************************)
(* Raft (consensus/raft.py): consensus is [state, current_term, voted_for, *)
(* current_leader, log, commit_index, next_index, match_index]; a log      *)
(* entry is [term, index, block, committed].  The election timer is the    *)
(* caller's: start_election is what its expiry leads to.                   *)
(***************************************************************************)
raft_max_block_size == 1000
MaxTerm == 2            \* elections of a run
MaxLog == 2             \* entries of the Raft log

Raft ==
    [state |-> "follower", current_term |-> 0, voted_for |-> NoAddr,
     current_leader |-> NoAddr, log |-> <<>>, commit_index |-> 0,
     next_index |-> EmptyMap, match_index |-> EmptyMap]

raft_select_transactions(pending, proposer_address) ==
    Prefix(SortedByKey(pending, <<"timestamp">>), raft_max_block_size)

\* Raft.prepare_consensus_data: nothing is appended to the log
raft_prepare_consensus_data(plugin, proposer_address) ==
    <<"raft", plugin.current_term, plugin.current_leader, Len(plugin.log)>>

\* Raft.validate_block: [ok, raised, plugin]
raft_validate_block(plugin, block, st) ==
    [ok |-> /\ plugin.state = "leader"
            /\ block.validator_address = plugin.current_leader
            /\ ~(block.consensus_data[2] < plugin.current_term),
     raised |-> FALSE, plugin |-> plugin]

start_election(plugin, node_address) ==
    [plugin EXCEPT !.state = "candidate", !.current_term = @ + 1,
                   !.voted_for = node_address]

receive_vote(plugin, voter, term, granted) ==
    IF term > plugin.current_term
    THEN [plugin EXCEPT !.current_term = term, !.state = "follower",
                        !.voted_for = NoAddr]
    ELSE plugin

become_leader(plugin, node_address, validators) ==
    [plugin EXCEPT !.state = "leader", !.current_leader = node_address,
                   !.next_index = [a \in DOMAIN validators |-> Len(plugin.log)],
                   !.match_index = [a \in DOMAIN validators |-> 0]]

step_down(plugin) ==
    [plugin EXCEPT !.state = "follower", !.current_leader = NoAddr]

\* RaftLog.__init__ and Raft.append_entry
append_entry(plugin, block) ==
    [plugin EXCEPT !.log = Append(@, [term |-> plugin.current_term,
                                      index |-> Len(plugin.log),
                                      block |-> block.hash,
                                      committed |-> FALSE])]

\* Raft.commit_entry; index counts from 0
commit_entry(plugin, index) ==
    IF index < Len(plugin.log)
    THEN [plugin EXCEPT !.log[index + 1].committed = TRUE,
                        !.commit_index = IF @ > index THEN @ ELSE index]
    ELSE plugin

\* Raft.on_block_committed: the first entry that holds the block
raft_on_block_committed(plugin, block, st) ==
    LET holding == {i \in 1..Len(plugin.log) : plugin.log[i].block = block.hash}
    IN  IF holding = {} THEN plugin
        ELSE commit_entry(plugin,
                          (CHOOSE i \in holding : \A j \in holding : i <= j) - 1)

\* a fresh chain under Raft
InitRaft ==
    /\ blocks = <<GenesisBlock>>
    /\ pending_transactions = <<>>
    /\ state = GenesisState
    /\ permission_system = NewPermissionSystem
    /\ validator_list = <<>>
    /\ current_index = 0
    /\ proposed = <<>>
    /\ last = Result("init", TRUE, FALSE)
    /\ current_round = NoRound
    /\ merkle_tree = NoTree
    /\ rbac = NoRBAC
    /\ mining = NoRequests
    /\ chain_info = NoInfo
    /\ consensus = Raft

\* add_block of an engine built with this plug-in
RaftAddBlock(block) ==
    LET c == raft_validate_block(consensus, block, VerifiedState(block))
    IN  PluginAddBlock(block, c,
                       raft_on_block_committed(c.plugin, block,
                                              CommittedState(block)))

\* check_heartbeat_timeout starts an election on a node that is not the
\* leader; the candidate that started it becomes leader or hears of a
\* higher term; the leader proposes, the caller appends the block it holds
\* to the log and hands it to add_block
NextRaft ==
    \/ /\ consensus.state # "leader"
       /\ consensus.current_term < MaxTerm
       /\ \E node_address \in Validators :
             PluginCall("start_election", TRUE,
                        start_election(consensus, node_address))
    \/ /\ consensus.state = "candidate"
       /\ consensus.current_term < MaxTerm
       /\ \E voter \in Validators, granted \in BOOLEAN :
             PluginCall("receive_vote", TRUE,
                        receive_vote(consensus, voter,
                                     consensus.current_term + 1, granted))
    \/ /\ consensus.state = "candidate"
       /\ PluginCall("become_leader", TRUE,
                     become_leader(consensus, consensus.voted_for,
                                   get_active_validators(state)))
    \/ /\ consensus.state # "follower"
       /\ PluginCall("step_down", TRUE, step_down(consensus))
    \/ /\ proposed = <<>>
       /\ \E validator_address \in Addr :
             PluginProposeBlock(
                 validator_address, validator_address, 1,
                 raft_select_transactions(pending_transactions,
                                          validator_address),
                 raft_prepare_consensus_data(consensus, validator_address),
                 consensus)
    \/ /\ proposed # <<>>
       /\ Len(consensus.log) < MaxLog
       /\ PluginCall("append_entry", TRUE,
                     append_entry(consensus, proposed[1]))
    \/ /\ proposed # <<>>
       /\ RaftAddBlock(proposed[1])
       /\ Len(blocks') <= (MaxHeight - 1) + 1

SpecRaft == InitRaft /\ [][NextRaft]_vars

\* C28: every block that the leader proposed and add_block committed has
\* an entry in the Raft log with committed = true, and every entry's
\* index is its position in the log
C28_CommittedBlocksAreLogged ==
    /\ \A k \in 2..Len(blocks) :
          \E i \in 1..Len(consensus.log) :
              /\ consensus.log[i].block = blocks[k].hash
              /\ consensus.log[i].committed
    /\ \A i \in 1..Len(consensus.log) : consensus.log[i].index = i - 1

(***************************************************************************)
(* VALIDATOR_UPDATE remove of an address that is no validator              *)
(***************************************************************************)
\* VALIDATOR_UPDATE remove transactions of the tagged creator for every
\* address, the genesis validators and the address that never was one
RemoveAnyInputs ==
    {Sign(ValidatorUpdateTransaction(Creator, v, "remove", 0, 1), Creator) :
        v \in Addr}

\* the engine of a restored chain, fed with removals of any address
NextRemoveAny ==
    \/ AddTransaction(RemoveAnyInputs)
    \/ ProposeBlock
    \/ AddProposedBlock(MaxHeight)
    \/ AddCallerBlock(RemoveAnyInputs, 1, MaxHeight)
    \/ AddValidatorToRotation

SpecRemoveAny == InitRestored /\ [][NextRemoveAny]_vars

\* the block carries a VALIDATOR_UPDATE remove whose validator_address is
\* not a key of state.validators
RemovesUnknown(block, st) ==
    \E i \in 1..Len(block.transactions) :
        /\ block.transactions[i].tx_type = "validator_update"
        /\ block.transactions[i].action = "remove"
        /\ block.transactions[i].target \notin DOMAIN st.validators

\* C29: add_block of a block that carries a VALIDATOR_UPDATE remove for an
\* address that is not a known validator returns false and leaves the block
\* list, the height and the validators as they were; when the block passed
\* verification and the plug-in it is the execution that raised
C29_UnknownRemoveRejected ==
    [][(/\ proposed # <<>>
        /\ RemovesUnknown(proposed[1], state)
        /\ add_block(proposed[1]))
          => /\ ~last'.ok
             /\ blocks' = blocks
             /\ state'.height = state.height
             /\ state'.validators = state.validators
             /\ (/\ _verify_block(Engine, proposed[1]).ok
                 /\ validate_block(proposed[1],
                                   _verify_block(Engine, proposed[1]).e.state).ok)
                   => last'.raised]_vars

(***************************************************************************)
(* PERMISSION_REVOKE with action set_level                                 *)
(***************************************************************************)
\* set_level transactions of the tagged creator that raise a2 above the
\* default level; PermissionTransaction files them as PERMISSION_GRANT
PromoteSetLevelInputs ==
    {Sign(PermissionTransaction(Creator, "a2", NoTag, "set_level", n, 0, 1),
          Creator) : n \in (min_level + 1)..max_level}

\* Transaction(tx_type=PERMISSION_REVOKE, data={target_address, action:
\* "set_level", new_level}) of the creator, signed with the creator's key;
\* the PermissionTransaction constructor never builds this kind
RevokeSetLevelInputs ==
    {Sign(Transaction("permission_revoke", Creator, NoAddr, NoAddr, 0,
                      "set_level", "a2", NoTag, n, 0, 0, 1), Creator) :
        n \in min_level..(max_level - 1)}

\* the engine of a restored chain, fed with promotions and with revokes
\* that carry a level
NextRevokeSetLevel ==
    \/ AddTransaction(PromoteSetLevelInputs \cup RevokeSetLevelInputs)
    \/ ProposeBlock
    \/ AddProposedBlock(MaxHeight)
    \/ AddCallerBlock(PromoteSetLevelInputs \cup RevokeSetLevelInputs, 1,
                      MaxHeight)
    \/ AddValidatorToRotation

SpecRevokeSetLevel == InitRestored /\ [][NextRevokeSetLevel]_vars

\* C30: when add_block commits a block with a PERMISSION_REVOKE transaction
\* of the creator whose action is set_level and whose new_level n is below
\* the target's current level, the target's level is n afterwards
C30_RevokeSetLevelDemotes ==
    [][\A tx \in RevokeSetLevelInputs :
        (/\ proposed # <<>>
         /\ InList(tx, proposed[1].transactions)
         /\ tx.new_level < user_level(permission_system, tx.target)
         /\ add_block(proposed[1])
         /\ last'.ok)
          => user_level(permission_system', tx.target)
                = tx.new_level]_vars

(***************************************************************************)
(* RoleBasedAccessControl (permissions/rbac.py) over AccessControlList     *)
(* (permissions/acl.py): rbac is [roles, role_assignments, permissions],   *)
(* roles a map from role name to Role.permissions, role_assignments a map  *)
(* from address to role names, permissions the map of acl.permissions.     *)
(* The reverse index and the audit log of the list are written by grant    *)
(* and revoke and read by none of the operations below.                    *)
(***************************************************************************)
\* AccessControlList.grant_permission on acl.permissions
acl_grant_permission(permissions, address, permission) ==
    LET held == IF address \in DOMAIN permissions THEN permissions[address]
                ELSE {}
    IN  With(permissions, address, held \cup {permission})

\* AccessControlList.revoke_permission on acl.permissions
acl_revoke_permission(permissions, address, permission) ==
    IF address \notin DOMAIN permissions THEN permissions
    ELSE [permissions EXCEPT ![address] = @ \ {permission}]

\* AccessControlList.get_permissions
acl_get_permissions(permissions, address) ==
    IF address \in DOMAIN permissions THEN permissions[address] ELSE {}

RECURSIVE GrantAll(_, _, _)
\* the loop `for permission in role.permissions: acl.grant_permission`
GrantAll(permissions, address, tags) ==
    IF tags = {} THEN permissions
    ELSE LET permission == CHOOSE t \in tags : TRUE
         IN  GrantAll(acl_grant_permission(permissions, address, permission),
                      address, tags \ {permission})

RECURSIVE RevokeAll(_, _, _)
\* the loop over the permissions that no other role holds
RevokeAll(permissions, address, tags) ==
    IF tags = {} THEN permissions
    ELSE LET permission == CHOOSE t \in tags : TRUE
         IN  RevokeAll(acl_revoke_permission(permissions, address, permission),
                       address, tags \ {permission})

\* _initialize_default_roles: the four roles and their tag sets
DefaultRoles ==
    [validator |-> {"can_validate", "can_propose_block", "can_send_tx",
                    "can_receive_tx", "can_read_state", "can_read_blocks"},
     user |-> {"can_send_tx", "can_receive_tx", "can_transfer",
               "can_read_state", "can_read_blocks"},
     admin |-> {"can_grant_permissions", "can_revoke_permissions",
                "can_update_validators", "can_deploy_contract", "admin"},
     observer |-> {"can_read_state", "can_read_blocks"}]

\* RoleBasedAccessControl.__init__
RoleBasedAccessControl ==
    [roles |-> DefaultRoles, role_assignments |-> EmptyMap,
     permissions |-> EmptyMap]

\* assign_role: [ok, r]
assign_role(r, address, role_name) ==
    IF role_name \notin DOMAIN r.roles THEN [ok |-> FALSE, r |-> r]
    ELSE
      LET assigned == IF address \in DOMAIN r.role_assignments
                      THEN r.role_assignments[address] ELSE {}
          r1 == [r EXCEPT !.role_assignments = With(@, address, assigned)]
      IN  IF role_name \in assigned THEN [ok |-> FALSE, r |-> r1]
          ELSE [ok |-> TRUE,
                r |-> [r1 EXCEPT
                        !.role_assignments[address] = @ \cup {role_name},
                        !.permissions =
                            GrantAll(@, address, r.roles[role_name])]]

\* revoke_role without the look at the other assigned roles
revoke_role_NoOtherRoleCheck(r, address, role_name) ==
    IF address \notin DOMAIN r.role_assignments THEN [ok |-> FALSE, r |-> r]
    ELSE IF role_name \notin r.role_assignments[address]
    THEN [ok |-> FALSE, r |-> r]
    ELSE
      [ok |-> TRUE,
       r |-> [r EXCEPT !.role_assignments[address] = @ \ {role_name},
                       !.permissions =
                           RevokeAll(@, address, r.roles[role_name])]]

\* revoke_role: [ok, r]; a tag stays when another role still assigned to
\* the address holds it
revoke_role(r, address, role_name) ==
    IF address \notin DOMAIN r.role_assignments THEN [ok |-> FALSE, r |-> r]
    ELSE IF role_name \notin r.role_assignments[address]
    THEN [ok |-> FALSE, r |-> r]
    ELSE
      LET others == r.role_assignments[address] \ {role_name}
          unshared == {permission \in r.roles[role_name] :
                          \A other_role_name \in others :
                              permission \notin r.roles[other_role_name]}
      IN  [ok |-> TRUE,
           r |-> [r EXCEPT !.role_assignments[address] = others,
                           !.permissions = RevokeAll(@, address, unshared)]]

RECURSIVE RevokeFromAll(_, _, _)
\* the loop of delete_role over the addresses with assignments
RevokeFromAll(r, addresses, role_name) ==
    IF addresses = {} THEN r
    ELSE LET address == CHOOSE a \in addresses : TRUE
         IN  RevokeFromAll(revoke_role(r, address, role_name).r,
                           addresses \ {address}, role_name)

\* delete_role: [ok, r]
delete_role(r, role_name) ==
    IF role_name \notin DOMAIN r.roles THEN [ok |-> FALSE, r |-> r]
    ELSE [ok |-> TRUE,
          r |-> [RevokeFromAll(r, DOMAIN r.role_assignments, role_name)
                    EXCEPT !.roles = Without(@, role_name)]]

\* add_permission_to_role: [ok, r]
add_permission_to_role(r, role_name, permission) ==
    IF role_name \notin DOMAIN r.roles THEN [ok |-> FALSE, r |-> r]
    ELSE
      LET holders == {a \in DOMAIN r.role_assignments :
                         role_name \in r.role_assignments[a]}
      IN  [ok |-> TRUE,
           r |-> [r EXCEPT
                   !.roles[role_name] = @ \cup {permission},
                   !.permissions =
                       [a \in DOMAIN @ \cup holders |->
                           IF a \in holders
                           THEN acl_get_permissions(@, a) \cup {permission}
                           ELSE @[a]]]]

\* remove_permission_from_role: [ok, r]
remove_permission_from_role(r, role_name, permission) ==
    IF role_name \notin DOMAIN r.roles THEN [ok |-> FALSE, r |-> r]
    ELSE
      LET roles == [r.roles EXCEPT ![role_name] = @ \ {permission}]
          has_from_other(a) ==
              \E other_role \in r.role_assignments[a] :
                  other_role # role_name /\ permission \in roles[other_role]
          losers == {a \in DOMAIN r.role_assignments :
                        /\ role_name \in r.role_assignments[a]
                        /\ ~has_from_other(a)}
      IN  [ok |-> TRUE,
           r |-> [r EXCEPT
                   !.roles = roles,
                   !.permissions =
                       [a \in DOMAIN @ |->
                           IF a \in losers THEN @[a] \ {permission}
                           ELSE @[a]]]]

\* a call on the RoleBasedAccessControl object
RBACCall(op, res) ==
    /\ rbac' = res.r
    /\ last' = Result(op, res.ok, FALSE)
    /\ UNCHANGED <<blocks, pending_transactions, state, permission_system,
                   validator_list, current_index, proposed, current_round,
                   merkle_tree, consensus, mining, chain_info>>

\* a RoleBasedAccessControl next to a fresh chain
InitRBAC ==
    /\ blocks = <<GenesisBlock>>
    /\ pending_transactions = <<>>
    /\ state = GenesisState
    /\ permission_system = NewPermissionSystem
    /\ validator_list = <<>>
    /\ current_index = 0
    /\ proposed = <<>>
    /\ last = Result("init", TRUE, FALSE)
    /\ current_round = NoRound
    /\ merkle_tree = NoTree
    /\ consensus = NoPlugin
    /\ rbac = RoleBasedAccessControl
    /\ mining = NoRequests
    /\ chain_info = NoInfo

\* the roles the calls name: three default roles and one that was never
\* created
RoleInputs == {"validator", "user", "observer", "auditor"}
\* a tag of user alone and a tag all three default roles hold
TagInputs == {"can_transfer", "can_read_state"}
AddressInputs == {"a1", "a2"}

NextRBAC ==
    \/ \E a \in AddressInputs, n \in RoleInputs :
          RBACCall("assign_role", assign_role(rbac, a, n))
    \/ \E a \in AddressInputs, n \in RoleInputs :
          RBACCall("revoke_role", revoke_role(rbac, a, n))
    \/ \E n \in RoleInputs : RBACCall("delete_role", delete_role(rbac, n))
    \/ \E n \in RoleInputs, t \in TagInputs :
          RBACCall("add_permission_to_role",
                   add_permission_to_role(rbac, n, t))
    \/ \E n \in RoleInputs, t \in TagInputs :
          RBACCall("remove_permission_from_role",
                   remove_permission_from_role(rbac, n, t))

SpecRBAC == InitRBAC /\ [][NextRBAC]_vars

\* the union of the tag sets of the roles assigned to the address
RoleTags(r, address) ==
    IF address \in DOMAIN r.role_assignments
    THEN UNION {r.roles[n] : n \in r.role_assignments[address]}
    ELSE {}

\* C31: with no direct grants, the permission set of every address is the
\* union of the permission sets of the roles assigned to it, after any
\* sequence of assign_role, revoke_role, add_permission_to_role,
\* remove_permission_from_role and delete_role; every assigned role exists
C31_PermissionsAreRoleUnion ==
    \A a \in AddressInputs :
        /\ a \in DOMAIN rbac.role_assignments
              => rbac.role_assignments[a] \subseteq DOMAIN rbac.roles
        /\ acl_get_permissions(rbac.permissions, a) = RoleTags(rbac, a)

\* revoke_role has just taken a role from an address that keeps another
\* role sharing a tag with it, and the address still holds that tag while
\* it lost one that only the revoked role held
C31_Witness ==
    /\ last = Result("revoke_role", TRUE, FALSE)
    /\ "a1" \in DOMAIN rbac.role_assignments
    /\ rbac.role_assignments["a1"] = {"observer"}
    /\ "user" \in DOMAIN rbac.roles
    /\ "can_transfer" \in rbac.roles["user"]
    /\ "can_read_state" \in rbac.roles["observer"]
    /\ "can_read_state" \in rbac.permissions["a1"]
    /\ "can_transfer" \notin rbac.permissions["a1"]

(***************************************************************************)
(* Concurrent callers of the engine.  The handlers of api/server.py are    *)
(* plain `def` functions, which the framework runs on a pool of threads,   *)
(* and nothing in the handlers or in the engine takes a lock: two requests *)
(* interleave between the statements of Blockchain.add_block and of        *)
(* Blockchain.get_chain_info.  mining maps a thread to the /mine request   *)
(* it runs, [pc, block, remaining]; chain_info is a get_chain_info call,   *)
(* [pc, height, last_block_hash, app_hash, pending].                       *)
(***************************************************************************)
MineThreads == {"m1", "m2"}

\* the block propose_block builds for the tip it sees
MinedBlock(validator_address) ==
    LET transactions == select_transactions(pending_transactions,
                                            validator_address)
        last_block == blocks[Len(blocks)]
        block == Block((Len(blocks) - 1) + 1, last_block.hash, transactions,
                       validator_address,
                       prepare_consensus_data(validator_address), 1)
    IN  finalize(block, sign_message(block.merkle_root, validator_address))

\* force_mine up to the call of add_block: propose_block for the validator
\* whose turn it is, with its key
MineProposeBlock(t) ==
    /\ RotationSettled
    /\ validator_list # <<>>
    /\ t \notin DOMAIN mining
    /\ Len(blocks) + Cardinality(DOMAIN mining) <= MaxHeight
    /\ mining' = With(mining, t, [pc |-> "add_block",
                                  block |-> MinedBlock(NextProposer),
                                  remaining |-> <<>>])
    /\ last' = Result("propose_block", TRUE, FALSE)
    /\ UNCHANGED <<blocks, pending_transactions, state, permission_system,
                   validator_list, current_index, proposed, current_round,
                   merkle_tree, consensus, rbac, chain_info>>

\* add_block up to `self.blocks.append(block)`: _verify_block, the
\* plug-in's validate_block and _execute_block_transactions
MineVerifyExecute(t) ==
    /\ t \in DOMAIN mining
    /\ mining[t].pc = "add_block"
    /\ LET block == mining[t].block
           v == _verify_block(Engine, block)
           c == validate_block(block, v.e.state)
           x == _execute_block_transactions(v.e, block)
       IN  IF ~v.ok
           THEN /\ state' = v.e.state
                /\ permission_system' = v.e.permission_system
                /\ mining' = Without(mining, t)
                /\ last' = Result("add_block", FALSE, FALSE)
                /\ UNCHANGED current_index
           ELSE IF ~c.ok
           THEN /\ state' = v.e.state
                /\ permission_system' = v.e.permission_system
                /\ current_index' = c.index
                /\ mining' = Without(mining, t)
                /\ last' = Result("add_block", FALSE, FALSE)
           ELSE IF ~x.ok
           THEN /\ state' = x.e.state
                /\ permission_system' = x.e.permission_system
                /\ current_index' = c.index
                /\ mining' = Without(mining, t)
                /\ last' = Result("add_block", FALSE, TRUE)
           ELSE /\ state' = x.e.state
                /\ permission_system' = x.e.permission_system
                /\ current_index' = c.index
                /\ mining' = [mining EXCEPT ![t].pc = "append"]
                /\ last' = last
    /\ Len(permission_system'.audit_log) <= MaxAudit
    /\ UNCHANGED <<blocks, pending_transactions, validator_list, proposed,
                   current_round, merkle_tree, consensus, rbac, chain_info>>

\* self.blocks.append(block)
MineAppend(t) ==
    /\ t \in DOMAIN mining
    /\ mining[t].pc = "append"
    /\ blocks' = Append(blocks, mining[t].block)
    /\ mining' = [mining EXCEPT ![t].pc = "state"]
    /\ UNCHANGED <<pending_transactions, state, permission_system,
                   validator_list, current_index, proposed, last,
                   current_round, merkle_tree, consensus, rbac, chain_info>>

\* self.state.height = block.height; self.state.last_block_hash = block.hash
MineState(t) ==
    /\ t \in DOMAIN mining
    /\ mining[t].pc = "state"
    /\ state' = [state EXCEPT !.height = mining[t].block.height,
                              !.last_block_hash = mining[t].block.hash]
    /\ mining' = [mining EXCEPT ![t].pc = "app_hash"]
    /\ UNCHANGED <<blocks, pending_transactions, permission_system,
                   validator_list, current_index, proposed, last,
                   current_round, merkle_tree, consensus, rbac, chain_info>>

\* self.state.calculate_app_hash()
MineAppHash(t) ==
    /\ t \in DOMAIN mining
    /\ mining[t].pc = "app_hash"
    /\ state' = calculate_app_hash(state)
    /\ mining' = [mining EXCEPT ![t].pc = "filter"]
    /\ UNCHANGED <<blocks, pending_transactions, permission_system,
                   validator_list, current_index, proposed, last,
                   current_round, merkle_tree, consensus, rbac, chain_info>>

\* the list comprehension over self.pending_transactions, not yet stored
MineFilter(t) ==
    /\ t \in DOMAIN mining
    /\ mining[t].pc = "filter"
    /\ LET block == mining[t].block
           executed_hashes == {TxHash(block.transactions[i]) :
                                   i \in 1..Len(block.transactions)}
       IN  mining' = [mining EXCEPT
                        ![t].pc = "assign",
                        ![t].remaining =
                            SelectSeq(pending_transactions,
                                      LAMBDA tx :
                                          TxHash(tx) \notin executed_hashes)]
    /\ UNCHANGED <<blocks, pending_transactions, state, permission_system,
                   validator_list, current_index, proposed, last,
                   current_round, merkle_tree, consensus, rbac, chain_info>>

\* the rest of add_block: the filtered list is stored, the proposer's
\* count and the plug-in's index are advanced, add_block returns True
MineAssign(t) ==
    /\ t \in DOMAIN mining
    /\ mining[t].pc = "assign"
    /\ pending_transactions' = mining[t].remaining
    /\ state' = IF mining[t].block.validator_address
                      \in DOMAIN state.validators
                THEN [state EXCEPT
                       !.validators[mining[t].block.validator_address]
                            .total_blocks_proposed = @ + 1]
                ELSE state
    /\ current_index' = (current_index + 1) % Len(validator_list)
    /\ mining' = Without(mining, t)
    /\ last' = Result("add_block", TRUE, FALSE)
    /\ UNCHANGED <<blocks, permission_system, validator_list, proposed,
                   current_round, merkle_tree, consensus, rbac, chain_info>>

\* every step of a /mine request on thread t
Mine(t) ==
    \/ MineProposeBlock(t)
    \/ MineVerifyExecute(t)
    \/ MineAppend(t)
    \/ MineState(t)
    \/ MineAppHash(t)
    \/ MineFilter(t)
    \/ MineAssign(t)

InfoUnchanged ==
    UNCHANGED <<blocks, pending_transactions, state, permission_system,
                validator_list, current_index, proposed, last,
                current_round, merkle_tree, consensus, rbac, mining>>

\* get_chain_info: 'height': self.get_height()
InfoHeight ==
    /\ RotationSettled
    /\ validator_list # <<>>
    /\ chain_info.pc \in {"idle", "done"}
    /\ chain_info' = [pc |-> "last_block_hash", height |-> Len(blocks) - 1,
                      last_block_hash |-> NoHash, app_hash |-> NoHash,
                      pending |-> <<>>]
    /\ InfoUnchanged

\* 'last_block_hash': self.state.last_block_hash
InfoLastBlockHash ==
    /\ chain_info.pc = "last_block_hash"
    /\ chain_info' = [chain_info EXCEPT
                        !.pc = "app_hash",
                        !.last_block_hash = state.last_block_hash]
    /\ InfoUnchanged

\* 'app_hash': self.state.app_hash
InfoAppHash ==
    /\ chain_info.pc = "app_hash"
    /\ chain_info' = [chain_info EXCEPT !.pc = "pending",
                                        !.app_hash = state.app_hash]
    /\ InfoUnchanged

\* 'pending_transactions': len(self.pending_transactions), and the return;
\* the record keeps the list whose length is reported
InfoPending ==
    /\ chain_info.pc = "pending"
    /\ chain_info' = [chain_info EXCEPT !.pc = "done",
                                        !.pending = pending_transactions]
    /\ InfoUnchanged

\* what the submitting handlers hand to add_transaction: a transfer of the
\* tagged creator and custom transactions of another address
SubmitInputs == {SignedTransfer} \cup CustomInputs

\* one /mine request at a time, next to submissions and get_chain_info
NextChainInfo ==
    \/ AddValidatorToRotation
    \/ AddTransaction(SubmitInputs)
    \/ Mine("m1")
    \/ InfoHeight
    \/ InfoLastBlockHash
    \/ InfoAppHash
    \/ InfoPending

SpecChainInfo == InitRestored /\ [][NextChainInfo]_vars

\* two /mine requests and submissions at the same time
NextMine ==
    \/ AddValidatorToRotation
    \/ AddTransaction(SubmitInputs)
    \/ \E t \in MineThreads : Mine(t)

SpecMine == InitRestored /\ [][NextMine]_vars

\* the height and the tip a stored app_hash was computed over (the digest
\* of the model keeps its input)
HashedHeight(app_hash) == app_hash[2][1]
HashedLastBlock(app_hash) == app_hash[2][2]

\* C32: a get_chain_info call that reports height h reports the hash of
\* block h as last_block_hash, the app-hash computed for block h, and a
\* pending pool that holds no transaction of block h
C32_ChainInfoSeesWholeCommit ==
    chain_info.pc = "done"
        => LET block == blocks[chain_info.height + 1]
           IN  /\ chain_info.last_block_hash = block.hash
               /\ HashedHeight(chain_info.app_hash) = chain_info.height
               /\ HashedLastBlock(chain_info.app_hash) = block.hash
               /\ \A i \in 1..Len(block.transactions) :
                     ~InList(block.transactions[i], chain_info.pending)

\* C33: the block list never holds two blocks of the same height, and a
\* transaction leaves the pending pool only into a committed block
C33_MutationsDoNotInterleave ==
    /\ [](\A i, j \in 1..Len(blocks) :
            i # j => blocks[i].height # blocks[j].height)
    /\ [][\A k \in 1..Len(pending_transactions) :
            ~InList(pending_transactions[k], pending_transactions')
                => \E i \in 1..Len(blocks') :
                      InList(pending_transactions[k],
                             blocks'[i].transactions)]_vars

(***************************************************************************)
(* Blocks signed with a key that is not the proposer's                     *)
(***************************************************************************)
\* the engine of a restored chain whose callers hand propose_block any
\* address together with any private key
NextBlockSignature ==
    \/ AddValidatorToRotation
    \/ AddTransaction(CustomInputs \cup RemoveInputs)
    \/ /\ RotationSettled
       /\ proposed = <<>>
       /\ \E validator_address \in Addr, key_owner \in Addr :
             propose_block(validator_address, key_owner, 1)
    \/ AddProposedBlock(MaxHeight)

SpecBlockSignature == InitRestored /\ [][NextBlockSignature]_vars

\* C34: a block that add_block commits names an active validator of the
\* state it was added to and carries a signature over its merkle root that
\* verifies with the key registered for that validator
C34_CommittedBlockIsSignedByProposer ==
    [][Commits
        => LET block == blocks'[Len(blocks')]
               address == block.validator_address
           IN  /\ address \in DOMAIN state.validators
               /\ state.validators[address].active
               /\ verify_signature(block.merkle_root,
                                   block.validator_signature,
                                   state.validators[address].pub_key)]_vars

(***************************************************************************)
(* TRANSFER transactions whose input names another address than the sender *)
(***************************************************************************)
\* Transaction(tx_type=TRANSFER, sender=creator, inputs=[from f],
\* outputs=[to t, amount 1]) signed by the creator, for f the creator or
\* another address
AnyInputTransfers ==
    {Sign(Transaction("transfer", Creator, ft[1], ft[2], 1, "none", NoAddr,
                      NoTag, 0, 0, n, 1), Creator) :
        ft \in {<<Creator, "a2">>, <<"a2", Creator>>}, n \in Nonces}

\* the engine of a restored chain, fed with these transfers
NextAnyInput ==
    \/ AddValidatorToRotation
    \/ AddTransaction(AnyInputTransfers)
    \/ ProposeBlock
    \/ AddProposedBlock(MaxHeight)

SpecAnyInput == InitRestored /\ [][NextAnyInput]_vars

\* C35: every transfer of a committed block debits its own sender, and an
\* account's balance goes down in a commit only if the block holds a
\* transfer sent by that account
C35_TransferDebitsSender ==
    [][Commits
        => LET block == blocks'[Len(blocks')]
           IN  /\ \A i \in 1..Len(block.transactions) :
                     block.transactions[i].tx_type = "transfer"
                        => block.transactions[i].from_address
                              = block.transactions[i].sender
               /\ \A a \in DOMAIN state.accounts :
                     state'.accounts[a].balance < state.accounts[a].balance
                        => \E i \in 1..Len(block.transactions) :
                              /\ block.transactions[i].tx_type = "transfer"
                              /\ block.transactions[i].sender = a]_vars

\* C36: no transaction digest appears in two committed blocks, or twice in
\* one
C36_CommittedOnce ==
    \A i, j \in 1..Len(blocks) :
        \A k \in 1..Len(blocks[i].transactions) :
            \A l \in 1..Len(blocks[j].transactions) :
                (i # j \/ k # l)
                    => TxHash(blocks[i].transactions[k])
                          # TxHash(blocks[j].transactions[l])

(***************************************************************************)
(* The commit loop: the validator whose turn it is keeps calling           *)
(* propose_block and add_block                                             *)
(***************************************************************************)
\* transactions that pass admission: custom ones, a transfer the creator
\* can pay, and a transfer of more than the creator holds (admission does
\* not look at the balance)
LoopInputs ==
    CustomInputs
    \cup {SignedTransfer,
          Sign(TransferTransaction(Creator, "a2", MaxInitBalance + 1, 0, 1),
               Creator)}

\* propose_block by the validator the rotation expects, with its own key
ProposeExpected ==
    /\ RotationSettled
    /\ validator_list # <<>>
    /\ proposed = <<>>
    /\ propose_block(NextProposer, NextProposer, 1)

\* the pool is fed once the rotation is filled
SubmitToLoop ==
    /\ validator_list # <<>>
    /\ AddTransaction(LoopInputs)

NextLoop ==
    \/ AddValidatorToRotation
    \/ SubmitToLoop
    \/ ProposeExpected
    \/ AddProposedBlock(MaxHeight)

\* the operator fills the rotation, and the expected validator goes on
\* proposing and handing its block to add_block
SpecLoop ==
    /\ InitRestored
    /\ [][NextLoop]_vars
    /\ WF_vars(AddValidatorToRotation)
    /\ WF_vars(ProposeExpected)
    /\ WF_vars(AddProposedBlock(MaxHeight))

\* C37: while the expected validator keeps proposing and adding, a block
\* is eventually committed, whatever admitted transactions the pool holds
C37_EventuallyCommitted == <>(Len(blocks) > 1)

(***************************************************************************)
(* Stored items                                                            *)
(***************************************************************************)
\* what store_data fixes of an item (access_data only adds to accessed_by)
Classified(item) == <<item.content, item.security_level, item.owner>>

\* C38: an item stored under a data id keeps its content, owner and
\* security level through every later call
C38_StoredItemKept ==
    [][\A d \in DOMAIN permission_system.data_store :
          /\ d \in DOMAIN permission_system'.data_store
          /\ Classified(permission_system'.data_store[d])
                = Classified(permission_system.data_store[d])]_vars

(***************************************************************************)
(* A fresh chain fed with permission-gated transactions                    *)
(***************************************************************************)
\* the kinds _check_transaction_permissions asks a flat tag for
GatedTypes ==
    {"transfer", "validator_update", "permission_grant", "permission_revoke"}

\* gated transactions of the creator and of another address, and custom
\* ones, which need no tag
BootstrapInputs == GrantInputs \cup UntaggedInputs \cup CustomInputs

\* the three engine operations, add_block also with blocks the caller
\* built itself, and the operator filling the rotation
NextBootstrap ==
    \/ AddValidatorToRotation
    \/ AddTransaction(BootstrapInputs)
    \/ ProposeExpected
    \/ AddProposedBlock(MaxHeight)
    \/ AddCallerBlock(BootstrapInputs, 1, MaxHeight)

\* every party goes on: the rotation is filled, transactions are
\* submitted, the expected validator proposes and adds, callers add blocks
SpecBootstrap ==
    /\ Init
    /\ [][NextBootstrap]_vars
    /\ WF_vars(AddValidatorToRotation)
    /\ WF_vars(AddTransaction(BootstrapInputs))
    /\ WF_vars(ProposeExpected)
    /\ WF_vars(AddProposedBlock(MaxHeight))
    /\ WF_vars(AddCallerBlock(BootstrapInputs, 1, MaxHeight))

GatedCommitted ==
    \E i \in 1..Len(blocks) :
        \E j \in 1..Len(blocks[i].transactions) :
            blocks[i].transactions[j].tx_type \in GatedTypes

HoldsFlatTag ==
    \E a \in DOMAIN state.accounts : state.accounts[a].permissions # <<>>

\* no state the operations reach from a fresh genesis has a gated
\* transaction in a block or an account with a flat tag
NothingGatedFromGenesis == ~GatedCommitted /\ ~HoldsFlatTag

\* C39: from a fresh genesis, add_transaction, propose_block and add_block
\* lead to a state in which a permission-gated transaction is committed,
\* or an account holds a flat tag
C39_GatedTransactionCommitted == <>(GatedCommitted \/ HoldsFlatTag)

(***************************************************************************)
(* The application hash                                                    *)
(***************************************************************************)
\* the content of a state: what to_dict holds besides the app_hash field
\* (chain id and custom state are the same in every state of the model)
Content(st) == <<st.height, st.last_block_hash, st.accounts, st.validators>>

\* the content the stored app_hash was computed from: to_dict as it was
\* hashed, without its app_hash entry
HashedContent(app_hash) ==
    <<app_hash[2][1], app_hash[2][2], app_hash[2][4], app_hash[2][5]>>

\* calling calculate_app_hash again on an unchanged state gives the value
\* it gave before
AppHashRepeats(st) ==
    calculate_app_hash(calculate_app_hash(st)).app_hash
        = calculate_app_hash(st).app_hash

\* the stored value is the digest of the content the state holds now
AppHashOfStoredContent(st) == HashedContent(st.app_hash) = Content(st)

\* after a commit, the stored value is the digest of the state the commit
\* left (and saved)
CommitHashesPersistedState ==
    (last.op = "add_block" /\ last.ok) => AppHashOfStoredContent(state)

\* C40: the stored app_hash depends on the content of the state only:
\* computing it again on an unchanged state changes nothing, and the value
\* a commit stores is the digest of the content that commit persisted
C40_AppHashIsOfContent ==
    /\ AppHashRepeats(state)
    /\ CommitHashesPersistedState

====
